---- MODULE Spec2Model ----
(***************************************************************************)
(* Model of the sidecar HTTP route compiler (package route):               *)
(* BuildHTTPRoutesForVirtualService, translateRoute and its helpers, and   *)
(* CombineVHostRoutes.  Go values are modelled as follows:                 *)
(*   - a struct is a record with the Go field names;                       *)
(*   - a nil pointer / nil interface is the record Nil;                    *)
(*   - a slice is a sequence (nil and empty slices are both << >>);        *)
(*   - a map is a function whose DOMAIN is the key set; ranging over it    *)
(*     visits the keys in the order given by the variable mapOrder, the    *)
(*     Go runtime's (unspecified) iteration order for this run;            *)
(*   - a string is a TLA+ string, s + t is s \o t, and the byte order of   *)
(*     strings is given by StrRank.                                        *)
(***************************************************************************)
EXTENDS Integers, Sequences, FiniteSets, TLC

VARIABLES
    pc,               \* "idle" | "ready" (arguments loaded) | "done" (call returned)
    node,             \* *model.Proxy: [Labels, Namespace]
    virtualService,   \* model.Config holding a networking.VirtualService
    serviceRegistry,  \* map[host.Name]*model.Service
    listenPort,       \* the listener port the routes are built for
    gatewayNames,     \* the gateway names the caller builds routes for
    mapOrder,         \* iteration order of Go maps in this run
    routeSets,        \* arguments of CombineVHostRoutes
    args,             \* arguments of a direct call of one of the other functions
    push,             \* model.PushContext: the destination rules by hostname, or nil
    virtualServices,  \* the configs given to BuildSidecarVirtualHostsFromConfigAndRegistry
    out,              \* the routes returned by the last call
    err               \* the error returned by BuildHTTPRoutesForVirtualService

vars == <<pc, node, virtualService, serviceRegistry, listenPort, gatewayNames,
          mapOrder, routeSets, args, push, virtualServices, out, err>>

---------------------------------------------------------------------------
(* Generic helpers *)

Nil == [kind |-> "nil"]

EmptyMap == << >>

SeqsUpTo(S, n) == UNION {[1..k -> S] : k \in 0..n}

Range(s) == {s[i] : i \in DOMAIN s}

Front(s) == SubSeq(s, 1, Len(s) - 1)

Last(s) == s[Len(s)]

RECURSIVE Flatten(_)
Flatten(ss) == IF ss = << >> THEN << >> ELSE Head(ss) \o Flatten(Tail(ss))

\* Byte-wise order of the strings used as header and query-parameter names
\* (':' sorts before every letter).
StrRank(s) ==
    CASE s = ":authority" -> 1
      [] s = ":method"    -> 2
      [] s = ":scheme"    -> 3
      [] s = "a"          -> 4
      [] s = "b"          -> 5
      [] s = "c"          -> 6
      [] s = "foo"        -> 7
      [] s = "q"          -> 8

\* All map keys of the model in ascending order, and the iteration orders a
\* run may see.
KeysAscending == <<"a", "b", "c", "foo", "q">>

Reverse(s) == [i \in DOMAIN s |-> s[Len(s) + 1 - i]]

MapOrders == {KeysAscending, Reverse(KeysAscending)}

\* for key := range m: the keys of m in this run's iteration order
MapRange(m) == SelectSeq(mapOrder, LAMBDA k : k \in DOMAIN m)

\* Stable insertion sort of a sequence of <<rank, element>> pairs by rank.
\* sort.Stable is stable by contract; sort.Slice is an insertion sort (hence
\* stable) on slices of at most 12 elements.
RECURSIVE InsertPair(_, _)
InsertPair(sorted, p) ==
    IF sorted = << >> THEN <<p>>
    ELSE IF p[1] < Last(sorted)[1]
         THEN Append(InsertPair(Front(sorted), p), Last(sorted))
         ELSE Append(sorted, p)

RECURSIVE SortPairs(_)
SortPairs(ps) ==
    IF ps = << >> THEN << >> ELSE InsertPair(SortPairs(Front(ps)), Last(ps))

\* s sorted by the strings keys[i], the sort key of s[i]
StableSortBy(s, keys) ==
    LET ps == SortPairs([i \in DOMAIN s |-> <<StrRank(keys[i]), s[i]>>])
    IN  [i \in DOMAIN s |-> ps[i][2]]

---------------------------------------------------------------------------
(* Match translation *)

HeaderMethod == ":method"
HeaderAuthority == ":authority"
HeaderScheme == ":scheme"

\* networking.StringMatch with its oneof MatchType
Exact(v) == [kind |-> "exact", value |-> v]
Prefix(v) == [kind |-> "prefix", value |-> v]
Regex(v) == [kind |-> "regex", value |-> v]

\* networking.HTTPMatchRequest with every field the compiler reads unset
EmptyMatch ==
    [Name |-> "", Uri |-> Nil, Headers |-> EmptyMap, WithoutHeaders |-> EmptyMap,
     QueryParams |-> EmptyMap, Method |-> Nil, Authority |-> Nil, Scheme |-> Nil,
     IgnoreUriCase |-> FALSE, Port |-> 0, Gateways |-> << >>,
     SourceLabels |-> EmptyMap, SourceNamespace |-> ""]

isCatchAllHeaderMatch(in) ==
    IF in = Nil THEN TRUE
    ELSE IF in.kind = "regex" THEN in.value = "*" ELSE FALSE

translateHeaderMatch(name, in) ==
    IF isCatchAllHeaderMatch(in)
    THEN [Name |-> name, InvertMatch |-> FALSE,
          HeaderMatchSpecifier |-> [kind |-> "present", value |-> "true"]]
    ELSE [Name |-> name, InvertMatch |-> FALSE,
          HeaderMatchSpecifier |-> [kind |-> in.kind, value |-> in.value]]

translateQueryParamMatch(name, in) ==
    [Name |-> name,
     QueryParameterMatchSpecifier |->
        IF in.kind \in {"exact", "regex"}
        THEN [kind |-> in.kind, value |-> in.value]
        ELSE Nil]

translateRouteMatch(in) ==
    IF in = Nil
    THEN [PathSpecifier |-> Prefix("/"), Headers |-> << >>,
          QueryParameters |-> << >>, CaseSensitive |-> Nil]
    ELSE
      LET hs == MapRange(in.Headers)
          ws == MapRange(in.WithoutHeaders)
          qs == MapRange(in.QueryParams)
          headers == [i \in DOMAIN hs |-> translateHeaderMatch(hs[i], in.Headers[hs[i]])]
          without == [i \in DOMAIN ws |->
                        [translateHeaderMatch(ws[i], in.WithoutHeaders[ws[i]])
                           EXCEPT !.InvertMatch = TRUE]]
          sorted == StableSortBy(headers \o without, hs \o ws)
          method == IF in.Method # Nil
                    THEN <<translateHeaderMatch(HeaderMethod, in.Method)>> ELSE << >>
          authority == IF in.Authority # Nil
                       THEN <<translateHeaderMatch(HeaderAuthority, in.Authority)>> ELSE << >>
          scheme == IF in.Scheme # Nil
                    THEN <<translateHeaderMatch(HeaderScheme, in.Scheme)>> ELSE << >>
      IN  [PathSpecifier |-> IF in.Uri # Nil THEN in.Uri ELSE Prefix("/"),
           Headers |-> sorted \o method \o authority \o scheme,
           QueryParameters |->
              [i \in DOMAIN qs |-> translateQueryParamMatch(qs[i], in.QueryParams[qs[i]])],
           CaseSensitive |-> [Value |-> ~in.IgnoreUriCase]]

---------------------------------------------------------------------------
(* Catch-all classification and the route-set combiner *)

isCatchAllMatch(m) ==
    LET catchall == IF m.Uri # Nil
                    THEN CASE m.Uri.kind = "prefix" -> m.Uri.value = "/"
                           [] m.Uri.kind = "regex"  -> m.Uri.value = "*"
                           [] OTHER -> FALSE
                    ELSE FALSE
    IN  catchall /\ DOMAIN m.Headers = {} /\ DOMAIN m.QueryParams = {}

RECURSIVE catchAllMatch(_)
catchAllMatch(matches) ==
    IF matches = << >> THEN Nil
    ELSE IF isCatchAllMatch(Head(matches)) THEN Head(matches)
    ELSE catchAllMatch(Tail(matches))

isCatchAllRoute(r) ==
    LET ps == r.Match.PathSpecifier
        catchall == CASE ps.kind = "prefix" -> ps.value = "/"
                      [] ps.kind = "regex"  -> ps.value = "*"
                      [] OTHER -> FALSE
    IN  catchall /\ Len(r.Match.Headers) = 0 /\ Len(r.Match.QueryParameters) = 0

\* The inner loop of CombineVHostRoutes over one route set; acc is
\* <<allroutes, catchAllRoutes>>.
RECURSIVE combineRoutes(_, _)
combineRoutes(routes, acc) ==
    IF routes = << >> THEN acc
    ELSE IF isCatchAllRoute(Head(routes))
         THEN combineRoutes(Tail(routes), <<acc[1], Append(acc[2], Head(routes))>>)
         ELSE combineRoutes(Tail(routes), <<Append(acc[1], Head(routes)), acc[2]>>)

\* The outer loop over the route sets, in input order.
RECURSIVE combineSets(_, _)
combineSets(sets, acc) ==
    IF sets = << >> THEN acc
    ELSE combineSets(Tail(sets), combineRoutes(Head(sets), acc))

CombineVHostRoutes_CatchAllFirst(sets) ==
    LET acc == combineSets(sets, << << >>, << >> >>) IN acc[2] \o acc[1]

CombineVHostRoutes(sets) ==
    LET acc == combineSets(sets, << << >>, << >> >>) IN acc[1] \o acc[2]

---------------------------------------------------------------------------
(* Source filtering and destination clusters *)

\* constants.IstioMeshGateway
IstioMeshGateway == "mesh"

\* serviceRegistry[hostname]: nil when the hostname is not a key
Lookup(registry, hostname) ==
    IF hostname \in DOMAIN registry THEN registry[hostname] ELSE Nil

\* labels.Collection{proxyLabels}.IsSupersetOf(sourceLabels)
IsSupersetOf(proxyLabels, sourceLabels) ==
    \A k \in DOMAIN sourceLabels :
        k \in DOMAIN proxyLabels /\ proxyLabels[k] = sourceLabels[k]

sourceMatchHTTP_LabelsAlways(match, proxyLabels, gateways, proxyNamespace) ==
    IF match = Nil THEN TRUE
    ELSE /\ Len(match.Gateways) > 0
            => \E i \in DOMAIN match.Gateways : match.Gateways[i] \in gateways
         /\ IsSupersetOf(proxyLabels, match.SourceLabels)
         /\ match.SourceNamespace = "" \/ match.SourceNamespace = proxyNamespace

sourceMatchHTTP(match, proxyLabels, gateways, proxyNamespace) ==
    IF match = Nil THEN TRUE
    ELSE IF Len(match.Gateways) > 0
         THEN \E i \in DOMAIN match.Gateways : match.Gateways[i] \in gateways
         ELSE IF IsSupersetOf(proxyLabels, match.SourceLabels)
              THEN match.SourceNamespace = "" \/ match.SourceNamespace = proxyNamespace
              ELSE FALSE

TrafficDirectionOutbound == "outbound"

\* model.BuildSubsetKey: direction|port|subset|hostname, as the sequence of
\* its "|"-separated parts.
BuildSubsetKey(direction, subsetName, hostname, port) ==
    <<direction, "|", ToString(port), "|", subsetName, "|", hostname>>

\* networking.Destination
Destination(hostname, subset, port) ==
    [Host |-> hostname, Subset |-> subset, Port |-> port]

PortSelector(n) == [Number |-> n]

\* The port GetDestinationCluster puts in the cluster name.
destinationPort_ListenerOnly(destination, service, listenerPort) ==
    IF destination.Port # Nil THEN destination.Port.Number ELSE listenerPort

destinationPort(destination, service, listenerPort) ==
    IF destination.Port # Nil THEN destination.Port.Number
    ELSE IF service # Nil /\ Len(service.Ports) = 1 THEN service.Ports[1].Port
    ELSE listenerPort

GetDestinationCluster(destination, service, listenerPort) ==
    BuildSubsetKey(TrafficDirectionOutbound, destination.Subset, destination.Host,
                   destinationPort(destination, service, listenerPort))

\* strings.Split(s, "|") on an identifier held as the sequence of its parts
\* and separators: the runs between the separators, each joined into one
\* string
RECURSIVE SplitKey(_, _, _)
SplitKey(s, i, part) ==
    IF i > Len(s) THEN <<part>>
    ELSE IF s[i] = "|" THEN <<part>> \o SplitKey(s, i + 1, "")
    ELSE SplitKey(s, i + 1, part \o s[i])

\* model.IsValidSubsetKey: the identifier has exactly three separators
IsValidSubsetKey(s) == Cardinality({ i \in DOMAIN s : s[i] = "|" }) = 3

\* The port numbers whose decimal form strconv.Atoi is given
DecimalPorts == {0, 80, 443, 7070, 8080, 9000, 9090}

\* strconv.Atoi with its error dropped: 0 for a string that is no number
Atoi(s) ==
    IF \E n \in DecimalPorts : ToString(n) = s
    THEN CHOOSE n \in DecimalPorts : ToString(n) = s
    ELSE 0

\* model.ParseSubsetKey: direction, subset, hostname and port of an
\* identifier; the zero values for one with fewer than four parts
ParseSubsetKey(s) ==
    LET Parsed(parts) ==
            IF Len(parts) < 4
            THEN [direction |-> "", subsetName |-> "", hostname |-> "", port |-> 0]
            ELSE [direction |-> parts[1], subsetName |-> parts[3],
                  hostname |-> parts[4], port |-> Atoi(parts[2])]
    IN  Parsed(SplitKey(s, 1, ""))

---------------------------------------------------------------------------
(* Header operations *)

\* networking.Headers_HeaderOperations and networking.Headers
HeaderOperations(set, add, remove) == [Set |-> set, Add |-> add, Remove |-> remove]

GetSet(ops) == IF ops = Nil THEN EmptyMap ELSE ops.Set
GetAdd(ops) == IF ops = Nil THEN EmptyMap ELSE ops.Add
GetRemove(ops) == IF ops = Nil THEN << >> ELSE ops.Remove
GetRequest(headers) == IF headers = Nil THEN Nil ELSE headers.Request
GetResponse(headers) == IF headers = Nil THEN Nil ELSE headers.Response

translateAppendHeaders_Unsorted(headers, appendFlag) ==
    LET ks == MapRange(headers)
    IN  [i \in DOMAIN ks |-> [Key |-> ks[i], Value |-> headers[ks[i]], Append |-> appendFlag]]

\* Every element built here has a Header, so Less compares the keys.
translateAppendHeaders(headers, appendFlag) ==
    IF DOMAIN headers = {} THEN << >>
    ELSE LET ks == MapRange(headers)
             list == [i \in DOMAIN ks |->
                        [Key |-> ks[i], Value |-> headers[ks[i]], Append |-> appendFlag]]
         IN  StableSortBy(list, ks)

translateHeadersOperations(headers) ==
    LET req == GetRequest(headers)
        resp == GetResponse(headers)
    IN  [requestHeadersToAdd |->
            translateAppendHeaders(GetSet(req), FALSE) \o translateAppendHeaders(GetAdd(req), TRUE),
         responseHeadersToAdd |->
            translateAppendHeaders(GetSet(resp), FALSE) \o translateAppendHeaders(GetAdd(resp), TRUE),
         requestHeadersToRemove |-> GetRemove(req),
         responseHeadersToRemove |-> GetRemove(resp)]

---------------------------------------------------------------------------
(* Hash policies from the destination rules *)

\* networking.LoadBalancerSettings_ConsistentHashLB with its oneof HashKey
HttpHeaderName(name) == [kind |-> "HttpHeaderName", value |-> name]
HttpCookie(name, ttl, path) ==
    [kind |-> "HttpCookie", value |-> [Name |-> name, Ttl |-> ttl, Path |-> path]]
UseSourceIp(b) == [kind |-> "UseSourceIp", value |-> b]
HttpQueryParameterName(name) == [kind |-> "HttpQueryParameterName", value |-> name]

\* networking.LoadBalancerSettings, TrafficPolicy_PortTrafficPolicy,
\* TrafficPolicy, Subset and DestinationRule
LoadBalancer(consistentHash) == [ConsistentHash |-> consistentHash]

PortTrafficPolicy(n, loadBalancer) ==
    [Port |-> PortSelector(n), LoadBalancer |-> loadBalancer]

TrafficPolicy(loadBalancer, portLevelSettings) ==
    [LoadBalancer |-> loadBalancer, PortLevelSettings |-> portLevelSettings]

Subset(name, trafficPolicy) == [Name |-> name, TrafficPolicy |-> trafficPolicy]

DestinationRuleSpec(trafficPolicy, subsets) ==
    [TrafficPolicy |-> trafficPolicy, Subsets |-> subsets]

\* The nil-safe getters of the generated types
GetTrafficPolicy(x) == IF x = Nil THEN Nil ELSE x.TrafficPolicy
GetLoadBalancer(x) == IF x = Nil THEN Nil ELSE x.LoadBalancer
GetConsistentHash(x) == IF x = Nil THEN Nil ELSE x.ConsistentHash
GetPortLevelSettings(x) == IF x = Nil THEN << >> ELSE x.PortLevelSettings
GetSubsets(x) == IF x = Nil THEN << >> ELSE x.Subsets

\* push.DestinationRule(node, service): the rule of the service's hostname
DestinationRule(store, nd, service) ==
    IF service.Hostname \in DOMAIN store THEN store[service.Hostname] ELSE Nil

\* The position of the first element of s from i on that satisfies the test
\* whose outcomes are hits[i]; 0 when there is none
RECURSIVE FirstHit(_, _)
FirstHit(hits, i) ==
    IF i > Len(hits) THEN 0
    ELSE IF hits[i] THEN i ELSE FirstHit(hits, i + 1)

portLevelSettingsConsistentHash(dst, pls) ==
    IF dst.Port # Nil
    THEN LET Found(k) ==
                 IF k = 0 THEN Nil
                 ELSE GetConsistentHash(GetLoadBalancer(pls[k]))
         IN  Found(FirstHit([k \in DOMAIN pls |->
                                pls[k].Port.Number = dst.Port.Number], 1))
    ELSE Nil

consistentHashToHashPolicy(consistentHash) ==
    IF consistentHash = Nil THEN Nil
    ELSE CASE consistentHash.kind = "HttpHeaderName" ->
                [kind |-> "Header", HeaderName |-> consistentHash.value]
           [] consistentHash.kind = "HttpCookie" ->
                [kind |-> "Cookie", Name |-> consistentHash.value.Name,
                 Ttl |-> consistentHash.value.Ttl, Path |-> consistentHash.value.Path]
           [] consistentHash.kind = "UseSourceIp" ->
                [kind |-> "ConnectionProperties", SourceIp |-> consistentHash.value]
           [] consistentHash.kind = "HttpQueryParameterName" ->
                [kind |-> "QueryParameter", Name |-> consistentHash.value]
           [] OTHER -> Nil

\* The switch of getHashPolicy over the four consistent hashes
hashPrecedence_HostFirst(subsetPLSHash, subsetHash, plsHash, consistentHash) ==
    CASE consistentHash # Nil -> consistentHash
      [] plsHash # Nil -> plsHash
      [] subsetHash # Nil -> subsetHash
      [] OTHER -> subsetPLSHash

hashPrecedence(subsetPLSHash, subsetHash, plsHash, consistentHash) ==
    CASE subsetPLSHash # Nil -> subsetPLSHash
      [] subsetHash # Nil -> subsetHash
      [] plsHash # Nil -> plsHash
      [] OTHER -> consistentHash

getHashPolicy(store, nd, dst, configNamespace) ==
    IF store = Nil THEN Nil
    ELSE
      LET destination == dst.Destination
          Resolved(rule) ==
              LET Chosen(k) ==
                      hashPrecedence(
                          IF k = 0 THEN Nil
                          ELSE portLevelSettingsConsistentHash(destination,
                                  GetPortLevelSettings(GetTrafficPolicy(rule.Subsets[k]))),
                          IF k = 0 THEN Nil
                          ELSE GetConsistentHash(GetLoadBalancer(
                                  GetTrafficPolicy(rule.Subsets[k]))),
                          portLevelSettingsConsistentHash(destination,
                              GetPortLevelSettings(GetTrafficPolicy(rule))),
                          GetConsistentHash(GetLoadBalancer(GetTrafficPolicy(rule))))
              IN  Chosen(FirstHit([k \in DOMAIN rule.Subsets |->
                                      rule.Subsets[k].Name = destination.Subset], 1))
          Policy(rule) ==
              IF rule = Nil THEN Nil ELSE consistentHashToHashPolicy(Resolved(rule))
      IN  Policy(DestinationRule(store, nd,
                     [Hostname |-> destination.Host,
                      Attributes |-> [Namespace |-> configNamespace]]))

---------------------------------------------------------------------------
(* translateRoute *)

\* features.DefaultRequestTimeout, in seconds
DefaultRequestTimeout == 0

\* A float64 percentage is held in millionths of a percent, so that
\* uint32(Value * 10000), which truncates, is the held number \div 100
\* (exact arithmetic: float rounding is not modelled).
PercentUnit == 1000000

translatePercentToFractionalPercent(p) ==
    [Numerator |-> p.Value \div (PercentUnit \div 10000), Denominator |-> "MILLION"]

translateIntegerToFractionalPercent(p) ==
    [Numerator |-> p, Denominator |-> "HUNDRED"]

mirrorPercent_LegacyFirst(in) ==
    CASE in.MirrorPercent # Nil ->
            IF in.MirrorPercent.Value > 0
            THEN translateIntegerToFractionalPercent(in.MirrorPercent.Value)
            ELSE Nil
      [] in.MirrorPercentage # Nil ->
            IF in.MirrorPercentage.Value > 0
            THEN translatePercentToFractionalPercent(in.MirrorPercentage)
            ELSE Nil
      [] OTHER -> translateIntegerToFractionalPercent(100)

\* The DefaultValue of the runtime fraction, or Nil for "do not mirror".
mirrorPercent(in) ==
    CASE in.MirrorPercentage # Nil ->
            IF in.MirrorPercentage.Value > 0
            THEN translatePercentToFractionalPercent(in.MirrorPercentage)
            ELSE Nil
      [] in.MirrorPercent # Nil ->
            IF in.MirrorPercent.Value > 0
            THEN translateIntegerToFractionalPercent(in.MirrorPercent.Value)
            ELSE Nil
      [] OTHER -> translateIntegerToFractionalPercent(100)

\* networking.HTTPFaultInjection_Delay and _Abort with their oneof types
FaultDelay(percentage, percent, delayType) ==
    [Percentage |-> percentage, Percent |-> percent, HttpDelayType |-> delayType]

FaultAbort(percentage, percent, errorType) ==
    [Percentage |-> percentage, Percent |-> percent, ErrorType |-> errorType]

HTTPFaultInjection(delay, abort) == [Delay |-> delay, Abort |-> abort]

\* The Delay of the HTTPFault built by translateFault
translateFaultDelay(delay) ==
    IF delay = Nil THEN Nil
    ELSE IF delay.HttpDelayType # Nil /\ delay.HttpDelayType.kind = "FixedDelay"
         THEN [Percentage |-> IF delay.Percentage # Nil
                              THEN translatePercentToFractionalPercent(delay.Percentage)
                              ELSE translateIntegerToFractionalPercent(delay.Percent),
               FaultDelaySecifier |->
                  [kind |-> "FixedDelay", FixedDelay |-> delay.HttpDelayType.value]]
         ELSE Nil

\* The Abort of the HTTPFault built by translateFault
translateFaultAbort(abort) ==
    IF abort = Nil THEN Nil
    ELSE IF abort.ErrorType # Nil /\ abort.ErrorType.kind = "HttpStatus"
         THEN [Percentage |-> IF abort.Percentage # Nil
                              THEN translatePercentToFractionalPercent(abort.Percentage)
                              ELSE Nil,
               ErrorType |-> [kind |-> "HttpStatus", HttpStatus |-> abort.ErrorType.value]]
         ELSE Nil

translateFault(in) ==
    IF in = Nil THEN Nil
    ELSE LET Fault(delay, abort) ==
                 IF delay = Nil /\ abort = Nil THEN Nil
                 ELSE [Delay |-> delay, Abort |-> abort]
         IN  Fault(translateFaultDelay(in.Delay), translateFaultAbort(in.Abort))

\* wellknown.Fault, the key of the fault filter in the per-filter configuration
WellknownFault == "envoy.fault"

\* util.MessageToAny: the message wrapped in an Any; nil for a nil message
MessageToAny(msg) ==
    IF msg = Nil THEN Nil ELSE [kind |-> "any", Message |-> msg]

\* out.TypedPerFilterConfig as translateRoute leaves it
typedPerFilterConfig(in) ==
    IF in.Fault # Nil
    THEN WellknownFault :> MessageToAny(translateFault(in.Fault))
    ELSE EmptyMap

\* networking.HTTPRoute with every field the compiler reads unset
EmptyHTTPRoute ==
    [Name |-> "", Match |-> << >>, Redirect |-> Nil, Route |-> << >>,
     Headers |-> Nil, Timeout |-> Nil, Mirror |-> Nil, MirrorPercent |-> Nil,
     MirrorPercentage |-> Nil, Fault |-> Nil]

\* The redirect branch: the action stored in out.Action.  For an unsupported
\* code the local variable action is set to nil before it is stored, so the
\* route carries neither a redirect nor a forward action.
redirectCodes ==
    [c \in {0, 301, 302, 303, 307, 308} |->
        CASE c \in {0, 301} -> "MOVED_PERMANENTLY"
          [] c = 302 -> "FOUND"
          [] c = 303 -> "SEE_OTHER"
          [] c = 307 -> "TEMPORARY_REDIRECT"
          [] c = 308 -> "PERMANENT_REDIRECT"]

redirectAction_KeepDefault(redirect) ==
    [kind |-> "redirect", HostRedirect |-> redirect.Authority,
     PathRedirect |-> redirect.Uri,
     ResponseCode |-> IF redirect.RedirectCode \in DOMAIN redirectCodes
                      THEN redirectCodes[redirect.RedirectCode]
                      ELSE "MOVED_PERMANENTLY"]

redirectAction(redirect) ==
    IF redirect.RedirectCode \in DOMAIN redirectCodes
    THEN [kind |-> "redirect", HostRedirect |-> redirect.Authority,
          PathRedirect |-> redirect.Uri,
          ResponseCode |-> redirectCodes[redirect.RedirectCode]]
    ELSE [kind |-> "none"]

\* One iteration body of the loop over in.Route: the ClusterWeight built for dst.
clusterWeight(in, dst, port, registry) ==
    LET ClusterWeight(operations) ==
          [Name |-> GetDestinationCluster(dst.Destination,
                                          Lookup(registry, dst.Destination.Host), port),
           Weight |-> IF dst.Weight = 0 THEN 100 ELSE dst.Weight,
           RequestHeadersToAdd |-> operations.requestHeadersToAdd,
           RequestHeadersToRemove |-> operations.requestHeadersToRemove,
           ResponseHeadersToAdd |-> operations.responseHeadersToAdd,
           ResponseHeadersToRemove |-> operations.responseHeadersToRemove]
    IN  ClusterWeight(translateHeadersOperations(dst.Headers))

\* Whether the loop skips dst (continue) instead of appending it.
skipsDestination_DropAllZero(in, dst) == dst.Weight = 0

skipsDestination(in, dst) == dst.Weight = 0 /\ Len(in.Route) # 1

\* The loop over in.Route from position i on; weighted is the slice so far.
RECURSIVE weightedLoop(_, _, _, _, _)
weightedLoop(in, i, port, registry, weighted) ==
    IF i > Len(in.Route) THEN weighted
    ELSE IF skipsDestination(in, in.Route[i])
         THEN weightedLoop(in, i + 1, port, registry, weighted)
         ELSE weightedLoop(in, i + 1, port, registry,
                           Append(weighted, clusterWeight(in, in.Route[i], port, registry)))

\* The loop over in.Route again, for action.HashPolicy: the hash policies of
\* the destinations the loop does not skip.
RECURSIVE hashPolicyLoop(_, _, _, _, _)
hashPolicyLoop(nd, in, i, registry, policies) ==
    IF i > Len(in.Route) THEN policies
    ELSE IF skipsDestination(in, in.Route[i])
         THEN hashPolicyLoop(nd, in, i + 1, registry, policies)
         ELSE LET Appended(hashPolicy) ==
                      IF hashPolicy # Nil THEN Append(policies, hashPolicy) ELSE policies
                  Namespace(service) ==
                      IF service # Nil THEN service.Attributes.Namespace ELSE ""
              IN  hashPolicyLoop(nd, in, i + 1, registry,
                      Appended(getHashPolicy(push, nd, in.Route[i],
                          Namespace(Lookup(registry, in.Route[i].Destination.Host)))))

\* The cluster specifier chosen from the weighted clusters.
clusterSpecifier_AlwaysWeighted(weighted) ==
    [kind |-> "weighted_clusters", Clusters |-> weighted]

clusterSpecifier(weighted) ==
    IF Len(weighted) = 1
    THEN [kind |-> "cluster", Cluster |-> weighted[1].Name]
    ELSE [kind |-> "weighted_clusters", Clusters |-> weighted]

\* in.GetRoute().GetCluster(): the single cluster of a forward action, the
\* empty string otherwise
GetCluster(in) ==
    IF in.Action # Nil /\ in.Action.kind = "route"
       /\ in.Action.ClusterSpecifier.kind = "cluster"
    THEN in.Action.ClusterSpecifier.Cluster
    ELSE << >>

routePath(ps) ==
    CASE ps = Nil -> "/*"
      [] ps.kind = "prefix" -> ps.value \o "*"
      [] ps.kind = "exact" -> ps.value
      [] ps.kind = "regex" -> ps.value

getRouteOperation_ListenPort(in, vsName, port) ==
    <<vsName, ":", ToString(port), routePath(in.Match.PathSpecifier)>>

getRouteOperation(in, vsName, port) ==
    LET Described(c, path) ==
            IF IsValidSubsetKey(c)
            THEN <<ParseSubsetKey(c).hostname, ":", ToString(ParseSubsetKey(c).port), path>>
            ELSE <<vsName, ":", ToString(port), path>>
    IN  Described(GetCluster(in), routePath(in.Match.PathSpecifier))

translateRoute(nd, in, match, port, vs, registry, gateways) ==
    IF ~sourceMatchHTTP(match, nd.Labels, gateways, nd.Namespace) THEN Nil
    ELSE IF match # Nil /\ match.Port # 0 /\ match.Port # port THEN Nil
    ELSE
      LET routeName == IF match # Nil /\ match.Name # ""
                       THEN in.Name \o "." \o match.Name ELSE in.Name
          \* out as it stands before the action is chosen
          Out(operations) ==
              [Name |-> routeName,
               Match |-> translateRouteMatch(match),
               RequestHeadersToAdd |-> operations.requestHeadersToAdd,
               ResponseHeadersToAdd |-> operations.responseHeadersToAdd,
               RequestHeadersToRemove |-> operations.requestHeadersToRemove,
               ResponseHeadersToRemove |-> operations.responseHeadersToRemove,
               TypedPerFilterConfig |-> typedPerFilterConfig(in),
               Decorator |-> Nil,
               Action |-> Nil]
          d == IF in.Timeout # Nil THEN in.Timeout.Seconds ELSE DefaultRequestTimeout
          Mirror(mp) == IF in.Mirror # Nil /\ mp # Nil
                        THEN << [Cluster |-> GetDestinationCluster(in.Mirror,
                                                Lookup(registry, in.Mirror.Host), port),
                                 RuntimeFraction |-> mp,
                                 TraceSampled |-> FALSE] >>
                        ELSE << >>
          \* the forward branch, from the weighted clusters the loop built
          Routed(base, weighted, single) ==
              [base EXCEPT
                 !.Action = [kind |-> "route", Timeout |-> d, MaxGrpcTimeout |-> d,
                             RequestMirrorPolicies |->
                                 Mirror(IF in.Mirror # Nil THEN mirrorPercent(in) ELSE Nil),
                             HashPolicy |-> hashPolicyLoop(nd, in, 1, registry, << >>),
                             ClusterSpecifier |-> clusterSpecifier(weighted)],
                 !.RequestHeadersToAdd =
                     IF single THEN @ \o weighted[1].RequestHeadersToAdd ELSE @,
                 !.RequestHeadersToRemove =
                     IF single THEN @ \o weighted[1].RequestHeadersToRemove ELSE @,
                 !.ResponseHeadersToAdd =
                     IF single THEN @ \o weighted[1].ResponseHeadersToAdd ELSE @,
                 !.ResponseHeadersToRemove =
                     IF single THEN @ \o weighted[1].ResponseHeadersToRemove ELSE @]
          Forwarded(base, weighted) == Routed(base, weighted, Len(weighted) = 1)
          Acted(base) ==
              IF in.Redirect # Nil
              THEN [base EXCEPT !.Action = redirectAction(in.Redirect)]
              ELSE Forwarded(base, weightedLoop(in, 1, port, registry, << >>))
          Decorated(r) ==
              [r EXCEPT !.Decorator = [Operation |-> getRouteOperation(r, vs.Name, port)]]
      IN  Decorated(Acted(Out(translateHeadersOperations(in.Headers))))

---------------------------------------------------------------------------
(* BuildHTTPRoutesForVirtualService *)

\* The routes the inner loop appends for the match blocks of http from
\* position j on.
RECURSIVE matchLoop_Reversed(_, _, _, _, _, _, _, _)
matchLoop_Reversed(nd, http, j, port, vs, registry, gateways, acc) ==
    IF j > Len(http.Match) THEN acc
    ELSE LET Prepended(r) == IF r # Nil THEN <<r>> \o acc ELSE acc
         IN  matchLoop_Reversed(nd, http, j + 1, port, vs, registry, gateways,
                Prepended(translateRoute(nd, http, http.Match[j], port, vs,
                                         registry, gateways)))

RECURSIVE matchLoop(_, _, _, _, _, _, _, _)
matchLoop(nd, http, j, port, vs, registry, gateways, acc) ==
    IF j > Len(http.Match) THEN acc
    ELSE LET Appended(r) == IF r # Nil THEN Append(acc, r) ELSE acc
         IN  matchLoop(nd, http, j + 1, port, vs, registry, gateways,
                Appended(translateRoute(nd, http, http.Match[j], port, vs,
                                        registry, gateways)))

\* One iteration of the loop over vs.Http: the routes appended for the rule
\* http, and whether the iteration ends in a break statement.
ruleRoutes_NoBreak(nd, http, port, vs, registry, gateways) ==
    IF Len(http.Match) = 0
    THEN LET Only(r) == [routes |-> IF r # Nil THEN <<r>> ELSE << >>, break |-> FALSE]
         IN  Only(translateRoute(nd, http, Nil, port, vs, registry, gateways))
    ELSE [routes |-> matchLoop(nd, http, 1, port, vs, registry, gateways, << >>),
          break |-> FALSE]

ruleRoutes_CatchAllGoesOn(nd, http, port, vs, registry, gateways) ==
    IF Len(http.Match) = 0
    THEN LET Only(r) == [routes |-> IF r # Nil THEN <<r>> ELSE << >>, break |-> TRUE]
         IN  Only(translateRoute(nd, http, Nil, port, vs, registry, gateways))
    ELSE
      LET CatchAll(match) ==
              IF match # Nil
              THEN translateRoute(nd, http, match, port, vs, registry, gateways)
              ELSE Nil
          OnlyOrAll(r) ==
              IF r # Nil
              THEN [routes |-> <<r>>, break |-> FALSE]
              ELSE [routes |-> matchLoop(nd, http, 1, port, vs, registry, gateways, << >>),
                    break |-> FALSE]
      IN  OnlyOrAll(CatchAll(catchAllMatch(http.Match)))

ruleRoutes(nd, http, port, vs, registry, gateways) ==
    IF Len(http.Match) = 0
    THEN LET Only(r) == [routes |-> IF r # Nil THEN <<r>> ELSE << >>, break |-> TRUE]
         IN  Only(translateRoute(nd, http, Nil, port, vs, registry, gateways))
    ELSE
      LET CatchAll(match) ==
              IF match # Nil
              THEN translateRoute(nd, http, match, port, vs, registry, gateways)
              ELSE Nil
          OnlyOrAll(r) ==
              IF r # Nil
              THEN [routes |-> <<r>>, break |-> TRUE]
              ELSE [routes |-> matchLoop(nd, http, 1, port, vs, registry, gateways, << >>),
                    break |-> FALSE]
      IN  OnlyOrAll(CatchAll(catchAllMatch(http.Match)))

\* The loop over vs.Http from position i on; acc is the slice out so far.
RECURSIVE httpLoop(_, _, _, _, _, _, _)
httpLoop(nd, vs, i, port, registry, gateways, acc) ==
    IF i > Len(vs.Http) THEN acc
    ELSE LET Step(rr) ==
                 IF rr.break THEN acc \o rr.routes
                 ELSE httpLoop(nd, vs, i + 1, port, registry, gateways, acc \o rr.routes)
         IN  Step(ruleRoutes(nd, vs.Http[i], port, vs, registry, gateways))

BuildHTTPRoutesForVirtualService(nd, vs, registry, port, gateways) ==
    LET Result(routes) ==
            IF Len(routes) = 0
            THEN [routes |-> << >>, err |-> TRUE]
            ELSE [routes |-> routes, err |-> FALSE]
    IN  Result(httpLoop(nd, vs, 1, port, registry, gateways, << >>))

---------------------------------------------------------------------------
(* Default routes *)

DefaultRouteName == "default"

\* retry.DefaultPolicy()
DefaultPolicy == [kind |-> "DefaultPolicy"]

traceOperation(hostname, port) == <<hostname, ":", ToString(port), "/*">>

BuildDefaultHTTPInboundRoute(nd, clusterName, operation) ==
    [Name |-> DefaultRouteName,
     Match |-> translateRouteMatch(Nil),
     Decorator |-> [Operation |-> operation],
     RequestHeadersToAdd |-> << >>, ResponseHeadersToAdd |-> << >>,
     RequestHeadersToRemove |-> << >>, ResponseHeadersToRemove |-> << >>,
     TypedPerFilterConfig |-> EmptyMap,
     Action |-> [kind |-> "route",
                 ClusterSpecifier |-> [kind |-> "cluster", Cluster |-> clusterName],
                 Timeout |-> 0, MaxGrpcTimeout |-> 0,
                 RetryPolicy |-> Nil, HashPolicy |-> << >>,
                 RequestMirrorPolicies |-> << >>]]

BuildDefaultHTTPOutboundRoute(nd, clusterName, operation) ==
    [BuildDefaultHTTPInboundRoute(nd, clusterName, operation)
        EXCEPT !.Action.RetryPolicy = DefaultPolicy]

getHashPolicyByService(nd, store, svc, port) ==
    IF store = Nil THEN Nil
    ELSE LET Policy(rule) ==
                 IF rule = Nil THEN Nil
                 ELSE LET Chosen(pls, k) ==
                              IF k = 0
                              THEN GetConsistentHash(GetLoadBalancer(GetTrafficPolicy(rule)))
                              ELSE GetConsistentHash(GetLoadBalancer(pls[k]))
                          Override(pls) ==
                              Chosen(pls, FirstHit([k \in DOMAIN pls |->
                                                       pls[k].Port.Number = port.Port], 1))
                      IN  consistentHashToHashPolicy(
                              Override(GetPortLevelSettings(GetTrafficPolicy(rule))))
         IN  Policy(DestinationRule(store, nd, svc))

---------------------------------------------------------------------------
(* Virtual hosts of a sidecar *)

\* The "."-separated labels of the hostnames of the model
HostLabels(h) ==
    CASE h = "one.svc"    -> <<"one", "svc">>
      [] h = "two.svc"    -> <<"two", "svc">>
      [] h = "none.svc"   -> <<"none", "svc">>
      [] h = "ext.svc"    -> <<"ext", "svc">>
      [] h = "foo.global" -> <<"foo", "global">>
      [] h = "bar.global" -> <<"bar", "global">>
      [] h = "global"     -> <<"global">>
      [] h = "*.global"   -> <<"*", "global">>
      [] h = "*.svc"      -> <<"*", "svc">>
      [] h = "*.local"    -> <<"*", "local">>
      [] h = "*"          -> <<"*">>

\* host.Name.IsWildCarded
IsWildCarded(h) == Head(HostLabels(h)) = "*"

\* host.Name.Matches for a wildcard pattern: the pattern, read as a suffix
\* glob, subsumes the hostname
Matches(h, pattern) ==
    LET ls == HostLabels(h)
        lp == HostLabels(pattern)
    IN  /\ Len(ls) >= Len(lp)
        /\ SubSeq(ls, Len(ls) - Len(lp) + 2, Len(ls)) = Tail(lp)

\* protocol.Instance.IsHTTP
IsHTTP(protocol) == protocol \in {"HTTP", "HTTP2", "GRPC", "GRPC-Web"}

\* util.IsProtocolSniffingEnabledForPort: outbound sniffing is on, and applies
\* to the ports whose protocol is not declared
IsProtocolSniffingEnabledForPort(port) == port.Protocol = "UnsupportedProtocol"

\* The guard of the two loops over svc.Ports
httpEligible_DeclaredOnly(port) == IsHTTP(port.Protocol)

httpEligible(port) == IsHTTP(port.Protocol) \/ IsProtocolSniffingEnabledForPort(port)

\* for port := range m, for a map keyed by port numbers: the keys in the
\* order this run's iteration order gives their decimal strings
PortRange(ports) ==
    LET ks == SelectSeq(mapOrder, LAMBDA k : \E n \in ports : ToString(n) = k)
    IN  [i \in DOMAIN ks |-> CHOOSE n \in ports : ToString(n) = ks[i]]

separateVSHostsAndServices_WildcardsStay(vs, registry) ==
    LET exact == SelectSeq(vs.Hosts, LAMBDA h : ~IsWildCarded(h))
        wchosts == SelectSeq(vs.Hosts, IsWildCarded)
        found == SelectSeq(exact, LAMBDA h : h \in DOMAIN registry)
        matched(w) == SelectSeq(MapRange(registry), LAMBDA s : Matches(s, w))
    IN  [hosts |-> SelectSeq(exact, LAMBDA h : h \notin DOMAIN registry) \o wchosts,
         services |-> [i \in DOMAIN found |-> registry[found[i]]]
                      \o Flatten([i \in DOMAIN wchosts |->
                            [j \in DOMAIN matched(wchosts[i]) |->
                                registry[matched(wchosts[i])[j]]]])]

separateVSHostsAndServices(vs, registry) ==
    LET exact == SelectSeq(vs.Hosts, LAMBDA h : ~IsWildCarded(h))
        wchosts == SelectSeq(vs.Hosts, IsWildCarded)
        found == SelectSeq(exact, LAMBDA h : h \in DOMAIN registry)
        matched(w) == SelectSeq(MapRange(registry), LAMBDA s : Matches(s, w))
    IN  [hosts |-> SelectSeq(exact, LAMBDA h : h \notin DOMAIN registry)
                   \o SelectSeq(wchosts, LAMBDA w : matched(w) = << >>),
         services |-> [i \in DOMAIN found |-> registry[found[i]]]
                      \o Flatten([i \in DOMAIN wchosts |->
                            [j \in DOMAIN matched(wchosts[i]) |->
                                registry[matched(wchosts[i])[j]]]])]

\* serviceByPort[n] as the first loop of
\* buildSidecarVirtualHostsForVirtualService leaves it: svc once per
\* eligible entry of svc.Ports with the number n, in the order of services
servicesOfPort(services, n) ==
    Flatten([i \in DOMAIN services |->
                [k \in DOMAIN SelectSeq(services[i].Ports,
                        LAMBDA port : port.Port = n /\ httpEligible(port))
                    |-> services[i]]])

buildSidecarVirtualHostsForVirtualService(nd, vs, registry, port) ==
    LET Wrappers(separated, built) ==
            LET keys == { p.Port : p \in { q \in UNION { Range(separated.services[i].Ports) :
                                                      i \in DOMAIN separated.services } :
                                           httpEligible(q) } }
                order == IF keys = {} THEN <<80>> ELSE PortRange(keys)
            IN  IF built.err \/ Len(built.routes) = 0 THEN << >>
                ELSE [i \in DOMAIN order |->
                        [Port |-> order[i],
                         Services |-> servicesOfPort(separated.services, order[i]),
                         VirtualServiceHosts |-> separated.hosts,
                         Routes |-> built.routes]]
    IN  Wrappers(separateVSHostsAndServices(vs, registry),
                 BuildHTTPRoutesForVirtualService(nd, vs, registry, port,
                                                  {IstioMeshGateway}))

\* The first loop of BuildSidecarVirtualHostsFromConfigAndRegistry
RECURSIVE virtualServiceWrappers_StopOnEmpty(_, _, _, _, _, _)
virtualServiceWrappers_StopOnEmpty(nd, registry, vss, i, port, acc) ==
    IF i > Len(vss) THEN acc
    ELSE LET Step(wrappers) ==
                 IF Len(wrappers) = 0 THEN acc
                 ELSE virtualServiceWrappers_StopOnEmpty(nd, registry, vss, i + 1, port,
                                                         acc \o wrappers)
         IN  Step(buildSidecarVirtualHostsForVirtualService(nd, vss[i], registry, port))

RECURSIVE virtualServiceWrappers(_, _, _, _, _, _)
virtualServiceWrappers(nd, registry, vss, i, port, acc) ==
    IF i > Len(vss) THEN acc
    ELSE virtualServiceWrappers(nd, registry, vss, i + 1, port,
            acc \o buildSidecarVirtualHostsForVirtualService(nd, vss[i], registry, port))

\* The ports of a service that get a default virtual host
defaultPorts_AllPorts(svc) == svc.Ports

defaultPorts(svc) == SelectSeq(svc.Ports, httpEligible)

\* The wrappers appended for one service missing from the virtual services
defaultWrappers(nd, svc) ==
    LET ports == defaultPorts(svc)
        Hashed(httpRoute, hashPolicy) ==
            IF hashPolicy # Nil
            THEN [httpRoute EXCEPT !.Action.HashPolicy = <<hashPolicy>>]
            ELSE httpRoute
    IN  [k \in DOMAIN ports |->
            [Port |-> ports[k].Port,
             Services |-> <<svc>>,
             VirtualServiceHosts |-> << >>,
             Routes |-> << Hashed(BuildDefaultHTTPOutboundRoute(nd,
                                      BuildSubsetKey(TrafficDirectionOutbound, "",
                                                     svc.Hostname, ports[k].Port),
                                      traceOperation(svc.Hostname, ports[k].Port)),
                                  getHashPolicyByService(nd, push, svc, ports[k])) >>]]

BuildSidecarVirtualHostsFromConfigAndRegistry(nd, registry, vss, port) ==
    LET Defaults(wrappers) ==
            LET missing == SelectSeq(MapRange(registry), LAMBDA fqdn :
                              \A i \in DOMAIN wrappers :
                                  \A svc \in Range(wrappers[i].Services) :
                                      svc.Hostname # fqdn)
            IN  wrappers \o Flatten([m \in DOMAIN missing |->
                                        defaultWrappers(nd, registry[missing[m]])])
    IN  Defaults(virtualServiceWrappers(nd, registry, vss, 1, port, << >>))

---------------------------------------------------------------------------
(* The state machine: a caller loads the arguments of a call (pc = "ready")
   and the call returns (pc = "done"). *)

NoProxy == [Labels |-> EmptyMap, Namespace |-> ""]

NoVirtualService == [Name |-> "", Hosts |-> << >>, Http |-> << >>]

Init ==
    /\ pc = "idle"
    /\ node = NoProxy
    /\ virtualService = NoVirtualService
    /\ serviceRegistry = EmptyMap
    /\ listenPort = 0
    /\ gatewayNames = {}
    /\ mapOrder = KeysAscending
    /\ routeSets = << >>
    /\ args = Nil
    /\ push = Nil
    /\ virtualServices = << >>
    /\ out = << >>
    /\ err = FALSE

---------------------------------------------------------------------------
(* Calls of BuildHTTPRoutesForVirtualService *)

\* Rules and match blocks are told apart by name: rule i is "r<i>" and its
\* j-th match block is "m<j>", so the route of block j of rule i is named
\* "r<i>.m<j>" and the route of a rule without match blocks "r<i>".
RuleName(i) == "r" \o ToString(i)

MatchName(j) == "m" \o ToString(j)

RouteName(i, j) == RuleName(i) \o "." \o MatchName(j)

Named(rules) ==
    [i \in DOMAIN rules |->
        [rules[i] EXCEPT
            !.Name = RuleName(i),
            !.Match = [j \in DOMAIN @ |-> [@[j] EXCEPT !.Name = MatchName(j)]]]]

\* model.Service, model.Port and a registry keyed by hostname
ServicePort(n, protocol) == [Port |-> n, Protocol |-> protocol]

Service(hostname, ports) ==
    [Hostname |-> hostname, Ports |-> ports, Attributes |-> [Namespace |-> "default"]]

\* A registry with a one-port, a two-port and a zero-port service; the
\* hostname "ext.svc" is in no registry.
Registry ==
    [h \in {"one.svc", "two.svc", "none.svc"} |->
        CASE h = "one.svc"  -> Service(h, <<ServicePort(7070, "HTTP")>>)
          [] h = "two.svc"  -> Service(h, <<ServicePort(80, "HTTP"), ServicePort(443, "HTTPS")>>)
          [] h = "none.svc" -> Service(h, << >>)]

\* networking.HTTPRouteDestination
RouteDestination(destination, weight, headers) ==
    [Destination |-> destination, Weight |-> weight, Headers |-> headers]

Forward(matches, destinations) ==
    [EmptyHTTPRoute EXCEPT !.Match = matches, !.Route = destinations]

DevProxy == [Labels |-> ("env" :> "dev"), Namespace |-> "ns1"]

\* The caller loads the arguments of the next call.
LoadCall(nodes, rulesets, registries, ports, orders, gatewaysets) ==
    /\ pc = "idle"
    /\ \E nd \in nodes : \E rules \in rulesets : \E registry \in registries :
       \E port \in ports : \E order \in orders : \E gateways \in gatewaysets :
          /\ node' = nd
          /\ virtualService' = [Name |-> "vs", Hosts |-> <<"one.svc">>,
                                Http |-> Named(rules)]
          /\ serviceRegistry' = registry
          /\ listenPort' = port
          /\ mapOrder' = order
          /\ gatewayNames' = gateways
    /\ pc' = "ready"
    /\ UNCHANGED <<push, virtualServices, routeSets, args, out, err>>

\* A sidecar caller: the routes are built for the mesh gateway.
LoadVirtualService(nodes, rulesets, registries, ports, orders) ==
    LoadCall(nodes, rulesets, registries, ports, orders, {{IstioMeshGateway}})

CallBuildHTTPRoutesForVirtualService ==
    /\ pc = "ready"
    /\ LET Return(res) == out' = res.routes /\ err' = res.err
       IN  Return(BuildHTTPRoutesForVirtualService(node, virtualService,
                      serviceRegistry, listenPort, gatewayNames))
    /\ pc' = "done"
    /\ UNCHANGED <<push, virtualServices, node, virtualService, serviceRegistry, listenPort, gatewayNames,
                   mapOrder, routeSets, args>>

\* The rule index a route of out comes from
RuleOf(r) ==
    CHOOSE i \in DOMAIN virtualService.Http :
        \/ r.Name = RuleName(i)
        \/ \E j \in DOMAIN virtualService.Http[i].Match : r.Name = RouteName(i, j)

RoutesOfRule(i) == SelectSeq(out, LAMBDA r : RuleOf(r) = i)

---------------------------------------------------------------------------
(* One rule with up to MaxMatches match blocks *)

MaxMatches == 3

\* Match blocks: no URI, root prefix, another path; with and without a header
\* predicate; for any port or for port 8080 only; and the wildcard regex.
MatchBlocks ==
    { [EmptyMatch EXCEPT !.Uri = u, !.Headers = h, !.Port = p] :
        u \in {Nil, Prefix("/"), Exact("/a")},
        h \in {EmptyMap, ("foo" :> Exact("bar"))},
        p \in {0, 8080} }
    \cup { [EmptyMatch EXCEPT !.Uri = Regex("*")] }

OneDestination == <<RouteDestination(Destination("one.svc", "", Nil), 100, Nil)>>

MatchRules == { <<Forward(ms, OneDestination)>> : ms \in SeqsUpTo(MatchBlocks, MaxMatches) }

NextMatch ==
    \/ LoadVirtualService({DevProxy}, MatchRules, {Registry}, {80, 8080}, {KeysAscending})
    \/ CallBuildHTTPRoutesForVirtualService

SpecMatch == Init /\ [][NextMatch]_vars

\* The match blocks of the only rule, without the names given to them
Unnamed(matches) == [j \in DOMAIN matches |-> [matches[j] EXCEPT !.Name = ""]]

\* C2: a rule with match blocks [{header foo=bar}, {}] on a proxy and port
\* that filter out neither block yields exactly one route, the catch-all one.
C2_CatchAllPrecedence ==
    (/\ pc = "done"
     /\ Unnamed(virtualService.Http[1].Match)
           = << [EmptyMatch EXCEPT !.Headers = ("foo" :> Exact("bar"))], EmptyMatch >>)
    => (Len(out) = 1 /\ isCatchAllRoute(out[1]))

\* C4: the routes emitted for one rule contain at most one route that the
\* combiner classifies as catch-all.
C4_AtMostOneCatchAllPerRule ==
    pc = "done" =>
      \A i \in DOMAIN virtualService.Http :
         Cardinality({k \in DOMAIN out : RuleOf(out[k]) = i /\ isCatchAllRoute(out[k])}) <= 1

\* C4, in the case the claim names: the first catch-all block of the rule
\* fails translation (it is for another port) and the other blocks are
\* translated.
C4_FirstCatchAllFails ==
    (/\ pc = "done"
     /\ Len(virtualService.Http[1].Match) = 3
     /\ \A j \in 1..3 : virtualService.Http[1].Match[j].Uri = Prefix("/")
     /\ \A j \in 1..3 : isCatchAllMatch(virtualService.Http[1].Match[j])
     /\ virtualService.Http[1].Match[1].Port # 0
     /\ virtualService.Http[1].Match[1].Port # listenPort)
    => Cardinality({k \in DOMAIN out : isCatchAllRoute(out[k])}) <= 1

---------------------------------------------------------------------------
(* Virtual services with up to MaxRules rules *)

MaxRules == 2

\* networking.HTTPRedirect
Redirect(code) == [Authority |-> "example.org", Uri |-> "/moved", RedirectCode |-> code]

UnsupportedRedirect == Redirect(304)

\* Rule shapes: no match block, a catch-all block (for any port, or for port
\* 8080 only), a path block (likewise), and a header block before a catch-all
\* block; each forwarding to one destination, forwarding to none, or
\* redirecting with an unsupported code.
RuleMatches ==
    { << >>,
      << [EmptyMatch EXCEPT !.Uri = Prefix("/")] >>,
      << [EmptyMatch EXCEPT !.Uri = Prefix("/"), !.Port = 8080] >>,
      << [EmptyMatch EXCEPT !.Uri = Exact("/a")] >>,
      << [EmptyMatch EXCEPT !.Uri = Exact("/a"), !.Port = 8080] >>,
      << [EmptyMatch EXCEPT !.Headers = ("foo" :> Exact("bar"))],
         [EmptyMatch EXCEPT !.Uri = Regex("*")] >> }

RuleShapes ==
    { Forward(ms, ds) : ms \in RuleMatches, ds \in {OneDestination, << >>} }
    \cup { [EmptyHTTPRoute EXCEPT !.Match = ms, !.Redirect = UnsupportedRedirect] :
             ms \in RuleMatches }

NextRules ==
    \/ LoadVirtualService({DevProxy}, SeqsUpTo(RuleShapes, MaxRules), {Registry},
                          {80, 8080}, {KeysAscending})
    \/ CallBuildHTTPRoutesForVirtualService

SpecRules == Init /\ [][NextRules]_vars

\* Rule k ended the loop over the rules with its catch-all route: the route
\* of its first catch-all match block is in the output.
StoppedByCatchAll(k) ==
    LET ms == virtualService.Http[k].Match IN
    \E j \in DOMAIN ms :
        /\ isCatchAllMatch(ms[j])
        /\ \A l \in 1..(j - 1) : ~isCatchAllMatch(ms[l])
        /\ \E n \in DOMAIN out : out[n].Name = RouteName(k, j)

\* Rule i is reached by the loop: no earlier rule is without match blocks or
\* has stopped the loop with its catch-all route.
Reached(i) ==
    \A k \in 1..(i - 1) :
        Len(virtualService.Http[k].Match) > 0 /\ ~StoppedByCatchAll(k)

\* C3: a rule with zero match blocks (that the loop reaches) emits exactly
\* one route, whatever its action; no rule declared after it contributes a
\* route; the routes of earlier rules stay before it in the output.
C3_EmptyMatchRuleStops ==
    pc = "done" =>
      \A i \in DOMAIN virtualService.Http :
        (Len(virtualService.Http[i].Match) = 0 /\ Reached(i)) =>
          /\ Len(RoutesOfRule(i)) = 1
          /\ out[Len(out)].Name = RuleName(i)
          /\ \A n \in DOMAIN out : RuleOf(out[n]) <= i
          /\ \A n \in 1..(Len(out) - 1) : RuleOf(out[n]) < i
          /\ ~err

\* A rule whose path block emits a route, then a rule without match blocks
\* that emits the last route.
C3_Witness ==
    /\ pc = "done"
    /\ Len(virtualService.Http) = 2
    /\ Len(virtualService.Http[1].Match) = 1
    /\ Len(virtualService.Http[2].Match) = 0
    /\ Len(out) = 2
    /\ out[1].Name = RouteName(1, 1)
    /\ out[2].Name = RuleName(2)

\* A rule without match blocks followed by a rule that would emit a route.
C3_WitnessLaterRule ==
    /\ pc = "done"
    /\ Len(virtualService.Http) = 2
    /\ Len(virtualService.Http[1].Match) = 0
    /\ virtualService.Http[2].Match = << [EmptyMatch EXCEPT !.Uri = Exact("/a"),
                                                              !.Name = MatchName(1)] >>
    /\ Len(out) = 1

---------------------------------------------------------------------------
(* One rule without match blocks and up to MaxDestinations destinations *)

MaxDestinations == 3

Headers(request, response) == [Request |-> request, Response |-> response]

RuleHeaders ==
    Headers(HeaderOperations(("b" :> "2") @@ ("a" :> "1"), ("c" :> "3"), <<"x-rule">>), Nil)

DestinationHeaders ==
    Headers(HeaderOperations(("q" :> "9"), ("a" :> "7"), <<"x-dst">>),
            HeaderOperations(("foo" :> "8"), EmptyMap, <<"x-resp">>))

WeightedDestinations ==
    { RouteDestination(Destination(h, "", Nil), w, hs) :
        h \in {"one.svc", "ext.svc"}, w \in {0, 50}, hs \in {Nil, DestinationHeaders} }

WeightRules ==
    { << [Forward(<< >>, ds) EXCEPT !.Headers = hs] >> :
        ds \in SeqsUpTo(WeightedDestinations, MaxDestinations), hs \in {Nil, RuleHeaders} }

NextWeights ==
    \/ LoadVirtualService({DevProxy}, WeightRules, {Registry}, {80}, MapOrders)
    \/ CallBuildHTTPRoutesForVirtualService

SpecWeights == Init /\ [][NextWeights]_vars

\* The destinations of a rule that the claims say reach the forward action:
\* all but the weight-0 ones of a rule with more than one destination.
Survivors(in) ==
    SelectSeq(in.Route, LAMBDA d : ~(d.Weight = 0 /\ Len(in.Route) > 1))

ClusterOf(d) ==
    GetDestinationCluster(d.Destination, Lookup(serviceRegistry, d.Destination.Host),
                          listenPort)

\* The cluster names a forward action targets, in order
Targets(action) ==
    IF action.ClusterSpecifier.kind = "cluster"
    THEN <<action.ClusterSpecifier.Cluster>>
    ELSE [i \in DOMAIN action.ClusterSpecifier.Clusters |->
            action.ClusterSpecifier.Clusters[i].Name]

\* C5: a weight-0 destination is dropped from the forward action iff the rule
\* declares more than one destination; an only destination of weight 0 is
\* kept, with weight 100; the other destinations keep their weights.
C5_WeightNormalization ==
    pc = "done" =>
      LET in == virtualService.Http[1]
          kept == Survivors(in)
          weighted == weightedLoop(in, 1, listenPort, serviceRegistry, << >>)
      IN  /\ Len(out) = 1
          /\ out[1].Action.kind = "route"
          /\ Targets(out[1].Action) = [i \in DOMAIN kept |-> ClusterOf(kept[i])]
          /\ Len(weighted) = Len(kept)
          /\ \A i \in DOMAIN kept :
                weighted[i].Weight = IF kept[i].Weight = 0 THEN 100 ELSE kept[i].Weight
          /\ (Len(in.Route) = 1 /\ in.Route[1].Weight = 0) =>
                /\ Targets(out[1].Action) = <<ClusterOf(in.Route[1])>>
                /\ weighted[1].Weight = 100
          /\ Len(weighted) > 1 => out[1].Action.ClusterSpecifier.Clusters = weighted

\* Destinations with weights {0, 50}: one route targeting only the weight-50
\* destination.
C5_Witness ==
    /\ pc = "done"
    /\ Len(virtualService.Http[1].Route) = 2
    /\ virtualService.Http[1].Route[1].Weight = 0
    /\ virtualService.Http[1].Route[1].Destination.Host = "ext.svc"
    /\ virtualService.Http[1].Route[2].Weight = 50
    /\ virtualService.Http[1].Route[2].Destination.Host = "one.svc"
    /\ Len(out) = 1
    /\ out[1].Action.ClusterSpecifier =
          [kind |-> "cluster",
           Cluster |-> <<"outbound", "|", "7070", "|", "", "|", "one.svc">>]

\* An only destination of weight 0 is kept.
C5_WitnessOnlyZero ==
    /\ pc = "done"
    /\ Len(virtualService.Http[1].Route) = 1
    /\ virtualService.Http[1].Route[1].Weight = 0
    /\ Len(out) = 1
    /\ out[1].Action.ClusterSpecifier.kind = "cluster"

\* C6: with exactly one surviving destination the action names its cluster
\* and the destination's header lists follow the rule's in the route's own
\* lists; with two or more the action is a weighted-cluster list, one entry
\* per survivor in declared order with its own header lists, and the route's
\* lists hold only the rule's mutations.
C6_SingleClusterCollapse ==
    pc = "done" =>
      LET in == virtualService.Http[1]
          kept == Survivors(in)
          r == out[1]
          rule == translateHeadersOperations(in.Headers)
          dst(i) == translateHeadersOperations(kept[i].Headers)
      IN  /\ Len(kept) = 1 =>
                /\ r.Action.ClusterSpecifier = [kind |-> "cluster", Cluster |-> ClusterOf(kept[1])]
                /\ r.RequestHeadersToAdd = rule.requestHeadersToAdd \o dst(1).requestHeadersToAdd
                /\ r.RequestHeadersToRemove = rule.requestHeadersToRemove \o dst(1).requestHeadersToRemove
                /\ r.ResponseHeadersToAdd = rule.responseHeadersToAdd \o dst(1).responseHeadersToAdd
                /\ r.ResponseHeadersToRemove = rule.responseHeadersToRemove \o dst(1).responseHeadersToRemove
          /\ Len(kept) >= 2 =>
                /\ r.Action.ClusterSpecifier.kind = "weighted_clusters"
                /\ Len(r.Action.ClusterSpecifier.Clusters) = Len(kept)
                /\ \A i \in DOMAIN kept :
                     LET c == r.Action.ClusterSpecifier.Clusters[i] IN
                     /\ c.Name = ClusterOf(kept[i])
                     /\ c.RequestHeadersToAdd = dst(i).requestHeadersToAdd
                     /\ c.RequestHeadersToRemove = dst(i).requestHeadersToRemove
                     /\ c.ResponseHeadersToAdd = dst(i).responseHeadersToAdd
                     /\ c.ResponseHeadersToRemove = dst(i).responseHeadersToRemove
                /\ r.RequestHeadersToAdd = rule.requestHeadersToAdd
                /\ r.RequestHeadersToRemove = rule.requestHeadersToRemove
                /\ r.ResponseHeadersToAdd = rule.responseHeadersToAdd
                /\ r.ResponseHeadersToRemove = rule.responseHeadersToRemove

\* One surviving destination with header mutations under a rule with header
\* mutations: the destination's follow the rule's.
C6_Witness ==
    /\ pc = "done"
    /\ virtualService.Http[1].Headers = RuleHeaders
    /\ Len(Survivors(virtualService.Http[1])) = 1
    /\ Survivors(virtualService.Http[1])[1].Headers = DestinationHeaders
    /\ out[1].Action.ClusterSpecifier.kind = "cluster"
    /\ out[1].RequestHeadersToRemove = <<"x-rule", "x-dst">>
    /\ out[1].RequestHeadersToAdd =
          << [Key |-> "a", Value |-> "1", Append |-> FALSE],
             [Key |-> "b", Value |-> "2", Append |-> FALSE],
             [Key |-> "c", Value |-> "3", Append |-> TRUE],
             [Key |-> "q", Value |-> "9", Append |-> FALSE],
             [Key |-> "a", Value |-> "7", Append |-> TRUE] >>

\* Two surviving destinations: a weighted-cluster list in declared order.
C6_WitnessWeighted ==
    /\ pc = "done"
    /\ virtualService.Http[1].Headers = RuleHeaders
    /\ Len(virtualService.Http[1].Route) = 3
    /\ Len(Survivors(virtualService.Http[1])) = 2
    /\ out[1].Action.ClusterSpecifier.kind = "weighted_clusters"
    /\ Len(out[1].Action.ClusterSpecifier.Clusters) = 2
    /\ out[1].Action.ClusterSpecifier.Clusters[1].RequestHeadersToRemove = <<"x-dst">>
    /\ out[1].RequestHeadersToRemove = <<"x-rule">>

\* C7: a forward rule for which zero destinations survive weight
\* normalization emits no route.
C7_NoSurvivorNoRoute ==
    (/\ pc = "done"
     /\ virtualService.Http[1].Redirect = Nil
     /\ Len(Survivors(virtualService.Http[1])) = 0)
    => Len(out) = 0

---------------------------------------------------------------------------
(* One rule forwarding to one destination, with or without a mirror *)

Hostnames == {"one.svc", "two.svc", "none.svc", "ext.svc"}

ClusterRules ==
    { << [Forward(<< >>, <<RouteDestination(Destination(h, s, p), 100, Nil)>>)
            EXCEPT !.Mirror = m] >> :
        h \in Hostnames, s \in {"", "v1"}, p \in {Nil, PortSelector(9090)},
        m \in {Nil} \cup { Destination(mh, "", mp) :
                             mh \in Hostnames, mp \in {Nil, PortSelector(9090)} } }

NextCluster ==
    \/ LoadVirtualService({DevProxy}, ClusterRules, {Registry}, {80, 8080}, {KeysAscending})
    \/ CallBuildHTTPRoutesForVirtualService

SpecCluster == Init /\ [][NextCluster]_vars

\* The port the claim gives the cluster identifier of a destination
ClaimedPort(destination) ==
    IF destination.Port # Nil THEN destination.Port.Number
    ELSE IF /\ destination.Host \in DOMAIN serviceRegistry
            /\ Len(serviceRegistry[destination.Host].Ports) = 1
         THEN serviceRegistry[destination.Host].Ports[1].Port
         ELSE listenPort

ClaimedCluster(destination) ==
    <<"outbound", "|", ToString(ClaimedPort(destination)), "|", destination.Subset,
      "|", destination.Host>>

C8_WitnessSinglePort ==
    /\ pc = "done"
    /\ listenPort = 8080
    /\ virtualService.Http[1].Route[1].Destination = Destination("one.svc", "", Nil)
    /\ out[1].Action.ClusterSpecifier.Cluster
          = <<"outbound", "|", "7070", "|", "", "|", "one.svc">>

---------------------------------------------------------------------------
(* Rules with a redirect *)

RedirectCodes == {0, 301, 302, 303, 307, 308, 304}

RedirectRules ==
    { [EmptyHTTPRoute EXCEPT !.Match = ms, !.Redirect = rd, !.Route = ds] :
        ms \in { << >>, << [EmptyMatch EXCEPT !.Uri = Exact("/a")] >> },
        rd \in {Nil} \cup { Redirect(c) : c \in RedirectCodes },
        ds \in { << >>, OneDestination } }

NextRedirect ==
    \/ LoadVirtualService({DevProxy}, SeqsUpTo(RedirectRules, MaxRules), {Registry},
                          {80}, {KeysAscending})
    \/ CallBuildHTTPRoutesForVirtualService

SpecRedirect == Init /\ [][NextRedirect]_vars

\* The response code the claim gives a redirect code, "" for the other codes
ClaimedResponseCode(code) ==
    CASE code = 0 \/ code = 301 -> "MOVED_PERMANENTLY"
      [] code = 302 -> "FOUND"
      [] code = 303 -> "SEE_OTHER"
      [] code = 307 -> "TEMPORARY_REDIRECT"
      [] code = 308 -> "PERMANENT_REDIRECT"
      [] OTHER -> ""

\* C9: the route of a rule with a redirect carries the mapped response code,
\* or no action at all for an unsupported code, and never a forward action;
\* every rule the loop reaches still emits its route.
C9_RedirectCodes ==
    pc = "done" =>
      /\ \A n \in DOMAIN out :
           LET in == virtualService.Http[RuleOf(out[n])]
               action == out[n].Action
           IN  /\ in.Redirect # Nil =>
                    /\ action.kind # "route"
                    /\ ClaimedResponseCode(in.Redirect.RedirectCode) # "" =>
                          action = [kind |-> "redirect",
                                    HostRedirect |-> in.Redirect.Authority,
                                    PathRedirect |-> in.Redirect.Uri,
                                    ResponseCode |-> ClaimedResponseCode(in.Redirect.RedirectCode)]
                    /\ ClaimedResponseCode(in.Redirect.RedirectCode) = "" =>
                          action = [kind |-> "none"]
               /\ in.Redirect = Nil => action.kind = "route"
      /\ \A i \in DOMAIN virtualService.Http : Reached(i) => Len(RoutesOfRule(i)) = 1
      /\ Len(virtualService.Http) > 0 => ~err

\* A rule redirecting with an unsupported code (and declaring a destination)
\* before a forwarding rule: the first route has no action, the second is
\* compiled.
C9_Witness ==
    /\ pc = "done"
    /\ Len(virtualService.Http) = 2
    /\ virtualService.Http[1].Redirect = Redirect(304)
    /\ virtualService.Http[1].Route = OneDestination
    /\ Len(virtualService.Http[1].Match) = 1
    /\ virtualService.Http[2].Redirect = Nil
    /\ Len(out) = 2
    /\ out[1].Action = [kind |-> "none"]
    /\ out[2].Action.kind = "route"

\* A supported code on a rule that also declares a destination.
C9_WitnessSupported ==
    /\ pc = "done"
    /\ Len(virtualService.Http) = 1
    /\ virtualService.Http[1].Redirect = Redirect(307)
    /\ virtualService.Http[1].Route = OneDestination
    /\ out[1].Action.kind = "redirect"
    /\ out[1].Action.ResponseCode = "TEMPORARY_REDIRECT"

---------------------------------------------------------------------------
(* One rule with a mirror *)

UInt32Value(n) == [Value |-> n]

\* networking.Percent, in millionths of a percent (see PercentUnit)
Percent(millionths) == [Value |-> millionths]

MirrorRules ==
    { << [Forward(<< >>, OneDestination) EXCEPT
            !.Mirror = m, !.MirrorPercent = mp, !.MirrorPercentage = mpg,
            !.Redirect = rd] >> :
        m \in {Nil, Destination("one.svc", "", Nil), Destination("ext.svc", "v1", Nil)},
        mp \in {Nil, UInt32Value(0), UInt32Value(30)},
        mpg \in {Nil, Percent(0), Percent(10), Percent(50 * PercentUnit)},
        rd \in {Nil, Redirect(301)} }

NextMirror ==
    \/ LoadVirtualService({DevProxy}, MirrorRules, {Registry}, {80, 8080}, {KeysAscending})
    \/ CallBuildHTTPRoutesForVirtualService

SpecMirror == Init /\ [][NextMirror]_vars

\* The mirror policies of a route: none on a route without forward action
MirrorPolicies(r) ==
    IF r.Action.kind = "route" THEN r.Action.RequestMirrorPolicies ELSE << >>

\* C10: with a mirror destination, a forward route mirrors at the fractional
\* percentage if that is present and > 0, does not mirror if it is present
\* and 0, else likewise for the legacy integer percentage, and mirrors at
\* 100% if neither is given; without a mirror destination it never mirrors.
C10_MirrorPercent ==
    pc = "done" =>
      LET in == virtualService.Http[1]
          policies == MirrorPolicies(out[1])
          At(fraction) == /\ Len(policies) = 1
                          /\ policies[1].RuntimeFraction = fraction
                          /\ policies[1].Cluster = ClaimedCluster(in.Mirror)
      IN  /\ Len(out) = 1
          /\ in.Mirror = Nil => policies = << >>
          /\ (in.Mirror # Nil /\ in.Redirect = Nil) =>
               CASE in.MirrorPercentage # Nil /\ in.MirrorPercentage.Value > 0 ->
                       At([Numerator |-> in.MirrorPercentage.Value \div 100,
                           Denominator |-> "MILLION"])
                 [] in.MirrorPercentage # Nil /\ in.MirrorPercentage.Value = 0 ->
                       policies = << >>
                 [] in.MirrorPercentage = Nil /\ in.MirrorPercent # Nil
                      /\ in.MirrorPercent.Value > 0 ->
                       At([Numerator |-> in.MirrorPercent.Value, Denominator |-> "HUNDRED"])
                 [] in.MirrorPercentage = Nil /\ in.MirrorPercent # Nil
                      /\ in.MirrorPercent.Value = 0 ->
                       policies = << >>
                 [] OTHER -> At([Numerator |-> 100, Denominator |-> "HUNDRED"])

\* Both percentages present: the fractional one (50%) wins over the legacy 30.
C10_Witness ==
    /\ pc = "done"
    /\ virtualService.Http[1].Mirror # Nil
    /\ virtualService.Http[1].Redirect = Nil
    /\ virtualService.Http[1].MirrorPercentage = Percent(50 * PercentUnit)
    /\ virtualService.Http[1].MirrorPercent = UInt32Value(30)
    /\ Len(MirrorPolicies(out[1])) = 1
    /\ MirrorPolicies(out[1])[1].RuntimeFraction
          = [Numerator |-> 500000, Denominator |-> "MILLION"]

\* A fractional percentage of 0 with a legacy percentage of 30: no mirror.
C10_WitnessZero ==
    /\ pc = "done"
    /\ virtualService.Http[1].Mirror # Nil
    /\ virtualService.Http[1].Redirect = Nil
    /\ virtualService.Http[1].MirrorPercentage = Percent(0)
    /\ virtualService.Http[1].MirrorPercent = UInt32Value(30)
    /\ MirrorPolicies(out[1]) = << >>

---------------------------------------------------------------------------
(* CombineVHostRoutes on route sets of compiled routes *)

MaxRoutes == 3
MaxRouteSets == 2

\* Match blocks whose compiled routes cover every branch of isCatchAllRoute.
CombineMatches ==
    { Nil,
      [EmptyMatch EXCEPT !.Uri = Regex("*")],
      [EmptyMatch EXCEPT !.Uri = Exact("/a")],
      [EmptyMatch EXCEPT !.Uri = Prefix("/"), !.Headers = ("foo" :> Exact("bar"))],
      [EmptyMatch EXCEPT !.QueryParams = ("q" :> Exact("1"))] }

\* The k-th route of a call's arguments: routes are distinct objects, told
\* apart by Name.
SampleRoute(k, m) == [Name |-> ToString(k), Match |-> translateRouteMatch(m)]

\* flat[1..cuts[1]], flat[cuts[1]+1..cuts[2]], ..., the rest of flat
SplitAt(flat, cuts) ==
    [i \in 1..(Len(cuts) + 1) |->
        SubSeq(flat,
               (IF i = 1 THEN 0 ELSE cuts[i - 1]) + 1,
               IF i = Len(cuts) + 1 THEN Len(flat) ELSE cuts[i])]

LoadRouteSets ==
    /\ pc = "idle"
    /\ \E ms \in SeqsUpTo(CombineMatches, MaxRoutes) :
       \E n \in 0..MaxRouteSets :
       \E cuts \in [1..(IF n = 0 THEN 0 ELSE n - 1) -> 0..Len(ms)] :
          /\ n = 0 => ms = << >>
          /\ \A i \in DOMAIN cuts : i > 1 => cuts[i - 1] <= cuts[i]
          /\ routeSets' = IF n = 0 THEN << >>
                          ELSE SplitAt([k \in DOMAIN ms |-> SampleRoute(k, ms[k])], cuts)
    /\ pc' = "ready"
    /\ UNCHANGED <<push, virtualServices, node, virtualService, serviceRegistry, listenPort, gatewayNames,
                   mapOrder, args, out, err>>

CallCombineVHostRoutes ==
    /\ pc = "ready"
    /\ out' = CombineVHostRoutes(routeSets)
    /\ pc' = "done"
    /\ UNCHANGED <<push, virtualServices, node, virtualService, serviceRegistry, listenPort, gatewayNames,
                   mapOrder, routeSets, args, err>>

NextCombine == LoadRouteSets \/ CallCombineVHostRoutes

SpecCombine == Init /\ [][NextCombine]_vars

\* Positions of the routes of s that are (or are not) catch-all
CatchAllAt(s) == {i \in DOMAIN s : isCatchAllRoute(s[i])}

\* C1: CombineVHostRoutes is a stable partition: the output holds every input
\* route exactly once, every non-catch-all route precedes every catch-all
\* route, and each class keeps the order of the concatenated input lists.
C1_StablePartition ==
    pc = "done" =>
      LET input == Flatten(routeSets) IN
      /\ Len(out) = Len(input)
      /\ \A r \in Range(input) : Cardinality({i \in DOMAIN out : out[i] = r}) = 1
      /\ \A i \in DOMAIN out : \A j \in DOMAIN out :
            (j \in CatchAllAt(out) /\ i \notin CatchAllAt(out)) => i < j
      /\ SelectSeq(out, isCatchAllRoute) = SelectSeq(input, isCatchAllRoute)
      /\ SelectSeq(out, LAMBDA r : ~isCatchAllRoute(r))
            = SelectSeq(input, LAMBDA r : ~isCatchAllRoute(r))

\* The spec's example: [A, B(catch-all)] and [C] combine to [A, C, B].
C1_Witness ==
    /\ pc = "done"
    /\ Len(routeSets) = 2
    /\ Len(routeSets[1]) = 2 /\ Len(routeSets[2]) = 1
    /\ ~isCatchAllRoute(routeSets[1][1])
    /\ isCatchAllRoute(routeSets[1][2])
    /\ ~isCatchAllRoute(routeSets[2][1])
    /\ out = <<routeSets[1][1], routeSets[2][1], routeSets[1][2]>>

---------------------------------------------------------------------------
(* Direct calls of the helper functions: the caller loads the arguments into
   args (pc = "ready") and the function returns into out (pc = "done"). *)

LoadArgs(arguments, orders) ==
    /\ pc = "idle"
    /\ \E a \in arguments : \E order \in orders :
          /\ args' = a
          /\ mapOrder' = order
    /\ pc' = "ready"
    /\ UNCHANGED <<push, virtualServices, node, virtualService, serviceRegistry, listenPort, gatewayNames,
                   routeSets, out, err>>

Returned(result) ==
    /\ out' = result
    /\ pc' = "done"
    /\ UNCHANGED <<push, virtualServices, node, virtualService, serviceRegistry, listenPort, gatewayNames,
                   mapOrder, routeSets, args, err>>

\* Every iteration order of a map with the keys ks
IterationOrders(ks) ==
    {s \in [1..Cardinality(ks) -> ks] : \A i, j \in DOMAIN s : s[i] = s[j] => i = j}

---------------------------------------------------------------------------
(* translateHeadersOperations on set and add maps *)

HeaderKeys == {"a", "b", "c"}

\* Header values: "1" for a, "2" for b, "3" for c
HeaderValue(k) == ToString(StrRank(k) - 3)

HeaderMaps == { [k \in S |-> HeaderValue(k)] : S \in SUBSET HeaderKeys }

HeaderOrders == { p \o <<"foo", "q">> : p \in IterationOrders(HeaderKeys) }

HeadersArgs ==
    {Nil} \cup
    { Headers(HeaderOperations(set, add, <<"x-req">>), resp) :
        set \in HeaderMaps, add \in HeaderMaps,
        resp \in {Nil, HeaderOperations(("c" :> "3"), ("a" :> "1"), << >>)} }

LoadHeaders == LoadArgs(HeadersArgs, HeaderOrders)

CallTranslateHeadersOperations ==
    /\ pc = "ready"
    /\ Returned(translateHeadersOperations(args))

NextHeaders == LoadHeaders \/ CallTranslateHeadersOperations

SpecHeaders == Init /\ [][NextHeaders]_vars

\* Whether list holds exactly one entry per key of m with the flag appendFlag,
\* carrying the value of the key
OnePerKey(list, m, appendFlag) ==
    \A k \in DOMAIN m :
        Cardinality({i \in DOMAIN list :
                        list[i].Key = k /\ list[i].Append = appendFlag}) = 1
        /\ \E i \in DOMAIN list :
              list[i] = [Key |-> k, Value |-> m[k], Append |-> appendFlag]

SortedByKey(list) ==
    \A i, j \in DOMAIN list : i < j => StrRank(list[i].Key) <= StrRank(list[j].Key)

\* C11: the header-add list holds one append=false entry per set key and one
\* append=true entry per add key, and the whole set-then-add list is sorted by
\* header key in nondecreasing order.
C11_HeaderAddSorted ==
    (pc = "done" /\ args # Nil) =>
        LET set == GetSet(GetRequest(args))
            add == GetAdd(GetRequest(args))
            list == out.requestHeadersToAdd
        IN  /\ Len(list) = Cardinality(DOMAIN set) + Cardinality(DOMAIN add)
            /\ OnePerKey(list, set, FALSE)
            /\ OnePerKey(list, add, TRUE)
            /\ SortedByKey(list)

\* The part of C11 that the code keeps: the entries, without their order.
C11_HeaderAddEntries ==
    (pc = "done" /\ args # Nil) =>
        LET set == GetSet(GetRequest(args))
            add == GetAdd(GetRequest(args))
            list == out.requestHeadersToAdd
        IN  /\ Len(list) = Cardinality(DOMAIN set) + Cardinality(DOMAIN add)
            /\ OnePerKey(list, set, FALSE)
            /\ OnePerKey(list, add, TRUE)

\* The keys of m in ascending order, whatever the iteration order
AscendingKeys(m) == SelectSeq(KeysAscending, LAMBDA k : k \in DOMAIN m)

\* The header-add list of a set and an add map, written without any
\* iteration order: set keys ascending, then add keys ascending.
CanonicalHeaderAdd(set, add) ==
    LET ss == AscendingKeys(set)
        as == AscendingKeys(add)
    IN  [i \in DOMAIN ss |-> [Key |-> ss[i], Value |-> set[ss[i]], Append |-> FALSE]]
        \o [i \in DOMAIN as |-> [Key |-> as[i], Value |-> add[as[i]], Append |-> TRUE]]

\* C12: translateHeadersOperations produces the same ordered header-add list
\* for the same set and add maps under every map iteration order (the list is
\* a function of the maps alone); for {set: {b:2, a:1}, add: {c:3}} the order
\* is a, b, c.
C12_HeaderSortDeterminism ==
    pc = "done" =>
        /\ out.requestHeadersToAdd
              = CanonicalHeaderAdd(GetSet(GetRequest(args)), GetAdd(GetRequest(args)))
        /\ out.responseHeadersToAdd
              = CanonicalHeaderAdd(GetSet(GetResponse(args)), GetAdd(GetResponse(args)))
        /\ (args # Nil /\ GetSet(GetRequest(args)) = ("b" :> "2") @@ ("a" :> "1")
              /\ GetAdd(GetRequest(args)) = ("c" :> "3"))
           => [i \in DOMAIN out.requestHeadersToAdd |-> out.requestHeadersToAdd[i].Key]
                 = <<"a", "b", "c">>

\* The spec's example under an iteration order that visits b before a.
C12_Witness ==
    /\ pc = "done"
    /\ args # Nil
    /\ mapOrder = <<"c", "b", "a", "foo", "q">>
    /\ GetSet(GetRequest(args)) = ("b" :> "2") @@ ("a" :> "1")
    /\ GetAdd(GetRequest(args)) = ("c" :> "3")
    /\ [i \in DOMAIN out.requestHeadersToAdd |-> out.requestHeadersToAdd[i].Key]
          = <<"a", "b", "c">>

---------------------------------------------------------------------------
(* One rule without match blocks and a fault injection *)

FaultDelays ==
    {Nil} \cup
    { FaultDelay(percentage, percent, delayType) :
        percentage \in {Nil, Percent(50 * PercentUnit)},
        percent \in {0, 10},
        delayType \in {Nil, [kind |-> "FixedDelay", value |-> 5],
                       [kind |-> "ExponentialDelay", value |-> 5]} }

FaultAborts ==
    {Nil} \cup
    { FaultAbort(percentage, percent, errorType) :
        percentage \in {Nil, Percent(50 * PercentUnit)},
        percent \in {0, 10},
        errorType \in {Nil, [kind |-> "HttpStatus", value |-> 503],
                       [kind |-> "GrpcStatus", value |-> 14],
                       [kind |-> "Http2Error", value |-> 2]} }

FaultRules ==
    { << [Forward(<< >>, OneDestination) EXCEPT !.Fault = f, !.Redirect = rd] >> :
        f \in {Nil} \cup { HTTPFaultInjection(d, a) : d \in FaultDelays, a \in FaultAborts },
        rd \in {Nil, Redirect(301)} }

NextFault ==
    \/ LoadVirtualService({DevProxy}, FaultRules, {Registry}, {80}, {KeysAscending})
    \/ CallBuildHTTPRoutesForVirtualService

SpecFault == Init /\ [][NextFault]_vars

DelayDisabled(fault) ==
    fault.Delay = Nil \/ fault.Delay.HttpDelayType = Nil
        \/ fault.Delay.HttpDelayType.kind # "FixedDelay"

AbortDisabled(fault) ==
    fault.Abort = Nil \/ fault.Abort.ErrorType = Nil
        \/ fault.Abort.ErrorType.kind # "HttpStatus"

\* The part of C13 about the sub-policies: when a fault policy is attached,
\* its delay is disabled exactly for a delay that is not a fixed delay and its
\* abort exactly for an abort that is not an HTTP-status abort.
C13_SubPoliciesDisabled ==
    (pc = "done" /\ virtualService.Http[1].Fault # Nil) =>
        LET fault == virtualService.Http[1].Fault
            config == out[1].TypedPerFilterConfig
        IN  (WellknownFault \in DOMAIN config /\ config[WellknownFault] # Nil) =>
               /\ (config[WellknownFault].Message.Delay = Nil) = DelayDisabled(fault)
               /\ (config[WellknownFault].Message.Abort = Nil) = AbortDisabled(fault)

\* C13: a delay that is not a fixed delay disables the delay sub-policy and
\* an abort that is not an HTTP-status abort disables the abort sub-policy;
\* when a rule declares a fault and both sub-policies are disabled or absent,
\* the compiled route has no fault entry in its per-filter configuration.
C13_NoFaultWhenBothDisabled ==
    (pc = "done" /\ virtualService.Http[1].Fault # Nil) =>
        LET fault == virtualService.Http[1].Fault
            config == out[1].TypedPerFilterConfig
        IN  /\ (WellknownFault \in DOMAIN config /\ config[WellknownFault] # Nil) =>
                  /\ (config[WellknownFault].Message.Delay = Nil) = DelayDisabled(fault)
                  /\ (config[WellknownFault].Message.Abort = Nil) = AbortDisabled(fault)
            /\ (DelayDisabled(fault) /\ AbortDisabled(fault))
                  => WellknownFault \notin DOMAIN config

---------------------------------------------------------------------------
(* translateRouteMatch on match blocks with header predicates *)

HeaderMatchArgs ==
    {Nil} \cup
    { [EmptyMatch EXCEPT !.Headers = [k \in hs |-> Exact("1")],
                         !.WithoutHeaders = [k \in ws |-> Regex("*")],
                         !.Method = method, !.Authority = authority,
                         !.Scheme = scheme] :
        hs \in SUBSET {"a", "b"}, ws \in SUBSET {"b", "c"},
        method \in {Nil, Exact("GET")}, authority \in {Nil, Prefix("example")},
        scheme \in {Nil, Exact("https")} }

LoadMatch == LoadArgs(HeaderMatchArgs, MapOrders)

CallTranslateRouteMatch ==
    /\ pc = "ready"
    /\ Returned(translateRouteMatch(args))

NextRouteMatch == LoadMatch \/ CallTranslateRouteMatch

SpecRouteMatch == Init /\ [][NextRouteMatch]_vars

SortedByName(list) ==
    \A i, j \in DOMAIN list : i < j => StrRank(list[i].Name) <= StrRank(list[j].Name)

\* The number of header matches a match block declares
DeclaredHeaderMatches(in) ==
    Cardinality(DOMAIN in.Headers) + Cardinality(DOMAIN in.WithoutHeaders)
    + (IF in.Method # Nil THEN 1 ELSE 0) + (IF in.Authority # Nil THEN 1 ELSE 0)
    + (IF in.Scheme # Nil THEN 1 ELSE 0)

\* C14: in the predicate produced by translateRouteMatch, all header matches
\* (from the headers set, from the without-headers set, and the pseudo-header
\* matches for method, authority and scheme) appear sorted by header name in
\* nondecreasing order.
C14_HeaderMatchesSorted ==
    (pc = "done" /\ args # Nil) =>
        /\ Len(out.Headers) = DeclaredHeaderMatches(args)
        /\ SortedByName(out.Headers)

\* What the code keeps of C14: the matches of the headers and without-headers
\* sets, which come first, are sorted among themselves.
C14_DeclaredHeadersSorted ==
    (pc = "done" /\ args # Nil) =>
        /\ Len(out.Headers) = DeclaredHeaderMatches(args)
        /\ SortedByName(SubSeq(out.Headers, 1,
               Cardinality(DOMAIN args.Headers) + Cardinality(DOMAIN args.WithoutHeaders)))

---------------------------------------------------------------------------
(* One rule with at most one match block that names its sources *)

SourceBlocks ==
    { [EmptyMatch EXCEPT !.Uri = uri, !.Gateways = gs, !.SourceLabels = ls,
                         !.SourceNamespace = ns] :
        uri \in {Nil, Prefix("/")},
        gs \in {<< >>, <<IstioMeshGateway>>, <<"gw1">>, <<"gw1", IstioMeshGateway>>},
        ls \in {EmptyMap, ("env" :> "prod"), ("env" :> "dev"),
                ("env" :> "dev") @@ ("app" :> "x")},
        ns \in {"", "ns1", "ns2"} }

SourceRules ==
    { <<Forward(ms, OneDestination)>> : ms \in SeqsUpTo(SourceBlocks, 1) }

SourceProxies ==
    { DevProxy,
      [Labels |-> EmptyMap, Namespace |-> "ns2"],
      [Labels |-> ("env" :> "dev") @@ ("app" :> "x"), Namespace |-> "ns2"] }

SourceGateways == { {IstioMeshGateway}, {"gw1"}, {} }

NextSource ==
    \/ LoadCall(SourceProxies, SourceRules, {Registry}, {80}, {KeysAscending},
                SourceGateways)
    \/ CallBuildHTTPRoutesForVirtualService

SpecSource == Init /\ [][NextSource]_vars

\* The source filter as the claim states it, for a match block
ClaimedSourcePass(m) ==
    IF Len(m.Gateways) > 0
    THEN \E g \in Range(m.Gateways) : g \in gatewayNames
    ELSE /\ \A k \in DOMAIN m.SourceLabels :
               k \in DOMAIN node.Labels /\ node.Labels[k] = m.SourceLabels[k]
         /\ m.SourceNamespace \in {"", node.Namespace}

\* C15: a match block that lists gateway names translates only if the proxy
\* holds one of them, whatever its labels; a match block without gateway names
\* translates only if the proxy's labels are a superset of the block's source
\* labels and the block's source namespace is empty or the proxy's; a nil
\* match block always passes.  A block requiring {env: prod} on a proxy
\* labeled {env: dev} yields no route unless it lists a held gateway name.
C15_SourceFiltering ==
    pc = "done" =>
        LET in == virtualService.Http[1] IN
        /\ Len(in.Match) = 0 => Len(out) = 1 /\ out[1].Name = RuleName(1)
        /\ Len(in.Match) = 1 =>
              /\ ClaimedSourcePass(in.Match[1])
                    => Len(out) = 1 /\ out[1].Name = RouteName(1, 1) /\ ~err
              /\ ~ClaimedSourcePass(in.Match[1]) => out = << >> /\ err
              /\ (in.Match[1].SourceLabels = ("env" :> "prod")
                    /\ node.Labels = ("env" :> "dev")
                    /\ ~(\E g \in Range(in.Match[1].Gateways) : g \in gatewayNames))
                 => out = << >>

\* A block requiring {env: prod} and namespace ns2 that lists the mesh
\* gateway, on the proxy labeled {env: dev} of ns1 holding the mesh gateway.
C15_Witness ==
    /\ pc = "done"
    /\ node = DevProxy
    /\ gatewayNames = {IstioMeshGateway}
    /\ Len(virtualService.Http[1].Match) = 1
    /\ virtualService.Http[1].Match[1].SourceLabels = ("env" :> "prod")
    /\ virtualService.Http[1].Match[1].SourceNamespace = "ns2"
    /\ virtualService.Http[1].Match[1].Gateways = <<"gw1", IstioMeshGateway>>
    /\ Len(out) = 1

\* The same block without gateway names: no route.
C15_WitnessFiltered ==
    /\ pc = "done"
    /\ node = DevProxy
    /\ Len(virtualService.Http[1].Match) = 1
    /\ virtualService.Http[1].Match[1].SourceLabels = ("env" :> "prod")
    /\ virtualService.Http[1].Match[1].Gateways = << >>
    /\ out = << >>
    /\ err

---------------------------------------------------------------------------
(* getHashPolicy on a destination of one.svc and its destination rule *)

\* The consistent hash each tier declares, of a different kind per tier
HostHash == HttpHeaderName("x-host")
HostPortHash == HttpCookie("host-port", 60, "/")
SubsetHash == HttpQueryParameterName("subset")
SubsetPortHash == UseSourceIp(TRUE)

\* Per-port overrides for port 7070: none, one with or without a consistent
\* hash, and one behind an override for another port
PortOverrides(hash) ==
    { << >>,
      <<PortTrafficPolicy(7070, LoadBalancer(hash))>>,
      <<PortTrafficPolicy(7070, LoadBalancer(Nil))>>,
      <<PortTrafficPolicy(7070, Nil)>>,
      <<PortTrafficPolicy(80, LoadBalancer(HttpHeaderName("x-other"))),
        PortTrafficPolicy(7070, LoadBalancer(hash))>> }

HashSubsets ==
    {Subset("v1", Nil)} \cup
    { Subset("v1", TrafficPolicy(lb, pls)) :
        lb \in {Nil, LoadBalancer(Nil), LoadBalancer(SubsetHash)},
        pls \in PortOverrides(SubsetPortHash) }

HashRules ==
    {DestinationRuleSpec(Nil, << >>)} \cup
    { DestinationRuleSpec(TrafficPolicy(lb, pls), subsets) :
        lb \in {Nil, LoadBalancer(HostHash)},
        pls \in PortOverrides(HostPortHash),
        subsets \in {<< >>} \cup { <<s>> : s \in HashSubsets }
                    \cup { <<Subset("v2", TrafficPolicy(LoadBalancer(HttpHeaderName("x-v2")),
                                                       << >>)), s>> : s \in HashSubsets } }

HashStores ==
    {Nil, EmptyMap} \cup { ("one.svc" :> rule) : rule \in HashRules }

HashDestinations ==
    { RouteDestination(Destination("one.svc", subset, port), 100, Nil) :
        subset \in {"", "v1"}, port \in {Nil, PortSelector(7070)} }

LoadHashPolicy ==
    /\ pc = "idle"
    /\ \E store \in HashStores : \E dst \in HashDestinations :
          /\ push' = store
          /\ args' = [dst |-> dst, configNamespace |-> "default"]
    /\ node' = DevProxy
    /\ pc' = "ready"
    /\ UNCHANGED <<virtualServices, virtualService, serviceRegistry, listenPort,
                   gatewayNames, mapOrder, routeSets, out, err>>

CallGetHashPolicy ==
    /\ pc = "ready"
    /\ out' = getHashPolicy(push, node, args.dst, args.configNamespace)
    /\ pc' = "done"
    /\ UNCHANGED <<push, virtualServices, node, virtualService, serviceRegistry,
                   listenPort, gatewayNames, mapOrder, routeSets, args, err>>

NextHashPolicy == LoadHashPolicy \/ CallGetHashPolicy

SpecHashPolicy == Init /\ [][NextHashPolicy]_vars

\* The consistent hashes a list of per-port overrides declares for the port
\* number n, in the order of the list
DeclaredForPort(pls, n) ==
    LET hashes == [k \in DOMAIN pls |->
                      IF pls[k].Port.Number = n /\ pls[k].LoadBalancer # Nil
                      THEN pls[k].LoadBalancer.ConsistentHash ELSE Nil]
    IN  SelectSeq(hashes, LAMBDA h : h # Nil)

\* The consistent hashes a traffic policy declares for a destination: its
\* port-level one first, then its own
DeclaredBy(tp, destination) ==
    IF tp = Nil THEN << >>
    ELSE (IF destination.Port = Nil THEN << >>
          ELSE DeclaredForPort(tp.PortLevelSettings, destination.Port.Number))
         \o (IF tp.LoadBalancer = Nil \/ tp.LoadBalancer.ConsistentHash = Nil
             THEN << >> ELSE <<tp.LoadBalancer.ConsistentHash>>)

\* The consistent hashes declared for the destination, highest tier first:
\* subset port-level, subset-level, host port-level, host-level
DeclaredHashes(rule, destination) ==
    LET named == SelectSeq(rule.Subsets, LAMBDA s : s.Name = destination.Subset)
    IN  (IF named = << >> THEN << >> ELSE DeclaredBy(named[1].TrafficPolicy, destination))
        \o DeclaredBy(rule.TrafficPolicy, destination)

\* The hash policy kind and key the spec gives for a consistent hash
ClaimedHashPolicy(hash) ==
    CASE hash = HostHash -> [kind |-> "Header", HeaderName |-> "x-host"]
      [] hash = HostPortHash ->
            [kind |-> "Cookie", Name |-> "host-port", Ttl |-> 60, Path |-> "/"]
      [] hash = SubsetHash -> [kind |-> "QueryParameter", Name |-> "subset"]
      [] hash = SubsetPortHash -> [kind |-> "ConnectionProperties", SourceIp |-> TRUE]

\* C20: the consistent hash used for a destination is the first one declared
\* among subset port-level, subset-level, host port-level and host-level, in
\* that order, where port-level entries are those for the destination's port;
\* when no tier declares one, or the host has no traffic policy or no rule,
\* no hash policy is produced (and the call returns normally).
C20_HashPolicyPrecedence ==
    pc = "done" =>
        IF push = Nil \/ "one.svc" \notin DOMAIN push
        THEN out = Nil
        ELSE LET declared == DeclaredHashes(push["one.svc"], args.dst.Destination)
             IN  IF declared = << >> THEN out = Nil
                 ELSE out = ClaimedHashPolicy(declared[1])

\* All four tiers declare a consistent hash for subset v1 and port 7070: the
\* subset port-level one (source IP) is used.
C20_Witness ==
    /\ pc = "done"
    /\ push # Nil
    /\ "one.svc" \in DOMAIN push
    /\ Len(DeclaredHashes(push["one.svc"], args.dst.Destination)) = 4
    /\ out = [kind |-> "ConnectionProperties", SourceIp |-> TRUE]

\* Only the two host tiers declare one: the host port-level cookie is used.
C20_WitnessHostPort ==
    /\ pc = "done"
    /\ push # Nil
    /\ "one.svc" \in DOMAIN push
    /\ DeclaredHashes(push["one.svc"], args.dst.Destination) = <<HostPortHash, HostHash>>
    /\ out = [kind |-> "Cookie", Name |-> "host-port", Ttl |-> 60, Path |-> "/"]

---------------------------------------------------------------------------
(* Calls of BuildSidecarVirtualHostsFromConfigAndRegistry *)

MaxVirtualServices == 2

\* Rule i of the k-th virtual service is "v<k>r<i>", so a route tells the
\* virtual service, the rule and the match block it comes from.
VSRuleName(k, i) == "v" \o ToString(k) \o RuleName(i)

NamedIn(k, vs) ==
    [vs EXCEPT !.Name = "vs" \o ToString(k),
               !.Http = [i \in DOMAIN @ |->
                            [Named(vs.Http)[i] EXCEPT !.Name = VSRuleName(k, i)]]]

\* A registry whose services expose one HTTP port, two HTTP ports and a
\* non-HTTP one, and no port; and one of services under "global", with a
\* port of undeclared protocol and a TCP port
SidecarRegistries ==
    { [h \in {"one.svc", "two.svc", "none.svc"} |->
         CASE h = "one.svc"  -> Service(h, <<ServicePort(7070, "HTTP")>>)
           [] h = "two.svc"  -> Service(h, <<ServicePort(80, "HTTP"),
                                            ServicePort(8080, "GRPC"),
                                            ServicePort(443, "HTTPS")>>)
           [] h = "none.svc" -> Service(h, << >>)],
      [h \in {"foo.global", "bar.global"} |->
         CASE h = "foo.global" -> Service(h, <<ServicePort(80, "HTTP")>>)
           [] h = "bar.global" -> Service(h, <<ServicePort(9000, "UnsupportedProtocol"),
                                              ServicePort(3306, "TCP")>>)] }

SidecarOrder ==
    <<"80", "443", "3306", "7070", "8080", "9000",
      "bar.global", "foo.global", "none.svc", "one.svc", "two.svc">>

SidecarOrders == {SidecarOrder, Reverse(SidecarOrder)}

SidecarPorts == {80, 8080}

\* Rules of one forward to two.svc: without match blocks, with a block for
\* port 80, with one for port 8080, for sources labelled env=prod, and with
\* a block for port 80 after one for port 8080
SidecarDestination == <<RouteDestination(Destination("two.svc", "", Nil), 100, Nil)>>

SidecarRules ==
    { <<Forward(<< >>, SidecarDestination)>>,
      <<Forward(<< [EmptyMatch EXCEPT !.Uri = Exact("/a"), !.Port = 80] >>,
                SidecarDestination)>>,
      <<Forward(<< [EmptyMatch EXCEPT !.Port = 8080] >>, SidecarDestination)>>,
      <<Forward(<< [EmptyMatch EXCEPT !.SourceLabels = ("env" :> "prod")] >>,
                SidecarDestination)>>,
      <<Forward(<< [EmptyMatch EXCEPT !.Uri = Exact("/b"), !.Port = 8080],
                   [EmptyMatch EXCEPT !.Uri = Exact("/a"), !.Port = 80] >>,
                SidecarDestination)>> }

SidecarHosts ==
    { <<"two.svc">>, <<"ext.svc">>, <<"*.global">>, <<"one.svc", "*.local">> }

\* Every rule list for the host two.svc; for the other host lists the rule
\* without match blocks and the one for port 8080
SidecarVirtualServices ==
    { [Name |-> "", Hosts |-> <<"two.svc">>, Http |-> rules] : rules \in SidecarRules }
    \cup { [Name |-> "", Hosts |-> hosts, Http |-> rules] :
             hosts \in SidecarHosts \ {<<"two.svc">>},
             rules \in { <<Forward(<< >>, SidecarDestination)>>,
                         <<Forward(<< [EmptyMatch EXCEPT !.Port = 8080] >>,
                                   SidecarDestination)>> } }

SidecarStores ==
    { Nil,
      [h \in {"one.svc", "foo.global"} |->
          DestinationRuleSpec(TrafficPolicy(LoadBalancer(HostHash), << >>), << >>)] }

LoadSidecar ==
    /\ pc = "idle"
    /\ \E registry \in SidecarRegistries : \E port \in SidecarPorts :
       \E order \in SidecarOrders : \E store \in SidecarStores :
       \E vss \in SeqsUpTo(SidecarVirtualServices, MaxVirtualServices) :
          /\ serviceRegistry' = registry
          /\ listenPort' = port
          /\ mapOrder' = order
          /\ push' = store
          /\ virtualServices' = [k \in DOMAIN vss |-> NamedIn(k, vss[k])]
    /\ node' = DevProxy
    /\ pc' = "ready"
    /\ UNCHANGED <<virtualService, gatewayNames, routeSets, args, out, err>>

CallBuildSidecarVirtualHostsFromConfigAndRegistry ==
    /\ pc = "ready"
    /\ out' = BuildSidecarVirtualHostsFromConfigAndRegistry(node, serviceRegistry,
                                                            virtualServices, listenPort)
    /\ pc' = "done"
    /\ UNCHANGED <<push, virtualServices, node, virtualService, serviceRegistry,
                   listenPort, gatewayNames, mapOrder, routeSets, args, err>>

NextSidecar == LoadSidecar \/ CallBuildSidecarVirtualHostsFromConfigAndRegistry

SpecSidecar == Init /\ [][NextSidecar]_vars

\* The route of match block j of rule i of the k-th virtual service is in
\* the group w
RouteOfBlockIn(w, k, i, j) ==
    \E r \in Range(w.Routes) : r.Name = VSRuleName(k, i) \o "." \o MatchName(j)

\* C16: in every group of the output, a route that comes from a match block
\* with an explicit port p (p # 0) sits in a group whose Port is p.
C16_PortFiltering ==
    pc = "done" =>
        \A w \in Range(out) :
            \A k \in DOMAIN virtualServices :
                \A i \in DOMAIN virtualServices[k].Http :
                    \A j \in DOMAIN virtualServices[k].Http[i].Match :
                        (/\ virtualServices[k].Http[i].Match[j].Port # 0
                         /\ RouteOfBlockIn(w, k, i, j))
                        => w.Port = virtualServices[k].Http[i].Match[j].Port

\* The part of C16 the code keeps: a match block whose explicit port differs
\* from the listening port of the call has a route in no group.
C16_ListenPortFiltering ==
    pc = "done" =>
        \A w \in Range(out) :
            \A k \in DOMAIN virtualServices :
                \A i \in DOMAIN virtualServices[k].Http :
                    \A j \in DOMAIN virtualServices[k].Http[i].Match :
                        (/\ virtualServices[k].Http[i].Match[j].Port # 0
                         /\ RouteOfBlockIn(w, k, i, j))
                        => listenPort = virtualServices[k].Http[i].Match[j].Port

\* The names of the routes the virtual services of the call can give
VirtualServiceRouteNames ==
    UNION { UNION { { VSRuleName(k, i) } \cup
                    { VSRuleName(k, i) \o "." \o MatchName(j) :
                        j \in DOMAIN virtualServices[k].Http[i].Match } :
                    i \in DOMAIN virtualServices[k].Http } :
            k \in DOMAIN virtualServices }

\* The group w was produced from a virtual service: it carries routes of one
FromVirtualService(w) ==
    \E r \in Range(w.Routes) : r.Name \in VirtualServiceRouteNames

\* The hostnames of the services in the groups produced from virtual services
CoveredHostnames ==
    { svc.Hostname : svc \in UNION { Range(out[i].Services) :
                                       i \in { n \in DOMAIN out : FromVirtualService(out[n]) } } }

\* A port that is HTTP or eligible for protocol sniffing
EligiblePort(port) ==
    port.Protocol \in {"HTTP", "HTTP2", "GRPC", "GRPC-Web", "UnsupportedProtocol"}

\* r is the default route to the port n of the service named h
IsDefaultRouteTo(r, h, n) ==
    /\ r.Match = [PathSpecifier |-> Prefix("/"), Headers |-> << >>,
                  QueryParameters |-> << >>, CaseSensitive |-> Nil]
    /\ r.Action.kind = "route"
    /\ r.Action.ClusterSpecifier =
           [kind |-> "cluster",
            Cluster |-> <<"outbound", "|", ToString(n), "|", "", "|", h>>]
    /\ r.Action.Timeout = 0
    /\ r.Action.RetryPolicy = DefaultPolicy

\* C18: every registry service that is in the Services of no group produced
\* from a virtual service has, for each of its HTTP or sniffing-eligible
\* ports, exactly one group with that port and that single service, whose
\* only route is the catch-all forward to the service's outbound cluster
\* for the port, without subset, with timeout 0 and the default retry
\* policy; no other group is synthesized.
C18_DefaultRouteSynthesis ==
    pc = "done" =>
        /\ \A h \in DOMAIN serviceRegistry \ CoveredHostnames :
               \A port \in { p \in Range(serviceRegistry[h].Ports) : EligiblePort(p) } :
                   /\ Cardinality({ i \in DOMAIN out :
                                      /\ ~FromVirtualService(out[i])
                                      /\ out[i].Port = port.Port
                                      /\ out[i].Services = <<serviceRegistry[h]>> }) = 1
                   /\ \A i \in DOMAIN out :
                          (/\ ~FromVirtualService(out[i])
                           /\ out[i].Port = port.Port
                           /\ out[i].Services = <<serviceRegistry[h]>>)
                          => /\ Len(out[i].Routes) = 1
                             /\ IsDefaultRouteTo(out[i].Routes[1], h, port.Port)
        /\ \A i \in DOMAIN out :
               ~FromVirtualService(out[i]) =>
                   /\ Len(out[i].Services) = 1
                   /\ out[i].Services[1].Hostname \in DOMAIN serviceRegistry \ CoveredHostnames
                   /\ \E port \in Range(out[i].Services[1].Ports) :
                          EligiblePort(port) /\ port.Port = out[i].Port

\* two.svc is covered by a virtual service and one.svc is not: the output
\* ends with the default group of one.svc for port 7070 and has no default
\* group for two.svc
C18_Witness ==
    /\ pc = "done"
    /\ Len(virtualServices) = 1
    /\ DOMAIN serviceRegistry = {"one.svc", "two.svc", "none.svc"}
    /\ CoveredHostnames = {"two.svc"}
    /\ Len(out) = 3
    /\ out[3].Port = 7070
    /\ out[3].Services = <<serviceRegistry["one.svc"]>>
    /\ Len(out[3].Routes) = 1
    /\ IsDefaultRouteTo(out[3].Routes[1], "one.svc", 7070)

\* No virtual service: a default group for each of the ports 80 and 8080 of
\* two.svc and none for its HTTPS port 443
C18_WitnessNoVirtualService ==
    /\ pc = "done"
    /\ virtualServices = << >>
    /\ DOMAIN serviceRegistry = {"one.svc", "two.svc", "none.svc"}
    /\ { out[i].Port : i \in DOMAIN out } = {80, 8080, 7070}
    /\ Len(out) = 3

\* C19: every registry service, for each of its HTTP or sniffing-eligible
\* ports p, is in the Services of at least one group of the output with
\* Port p and a non-empty route list.
C19_Reachability ==
    pc = "done" =>
        \A h \in DOMAIN serviceRegistry :
            \A port \in { p \in Range(serviceRegistry[h].Ports) : EligiblePort(p) } :
                \E i \in DOMAIN out :
                    /\ out[i].Port = port.Port
                    /\ serviceRegistry[h] \in Range(out[i].Services)
                    /\ Len(out[i].Routes) > 0

\* A virtual service for two.svc all of whose match blocks are filtered out:
\* two.svc is reached through its default groups
C19_Witness ==
    /\ pc = "done"
    /\ Len(virtualServices) = 1
    /\ virtualServices[1].Hosts = <<"two.svc">>
    /\ virtualServices[1].Http[1].Match # << >>
    /\ "two.svc" \in DOMAIN serviceRegistry
    /\ CoveredHostnames = {}
    /\ \E i, j \in DOMAIN out :
          /\ out[i].Port = 80 /\ out[j].Port = 8080
          /\ out[i].Services = <<serviceRegistry["two.svc"]>>
          /\ out[j].Services = <<serviceRegistry["two.svc"]>>

\* A virtual service for *.global that gives routes: foo.global and
\* bar.global are reached through its groups for the ports 80 and 9000
C19_WitnessWildcard ==
    /\ pc = "done"
    /\ Len(virtualServices) = 1
    /\ virtualServices[1].Hosts = <<"*.global">>
    /\ CoveredHostnames = {"foo.global", "bar.global"}
    /\ { out[i].Port : i \in DOMAIN out } = {80, 9000}
    /\ \A i \in DOMAIN out : FromVirtualService(out[i])

\* The block m is not filtered out for the proxy and the listening port
BlockPassesFor(m) ==
    /\ \A l \in DOMAIN m.SourceLabels :
          l \in DOMAIN node.Labels /\ node.Labels[l] = m.SourceLabels[l]
    /\ m.Port = 0 \/ m.Port = listenPort

\* No match block of the k-th virtual service passes, and each of its rules
\* has match blocks: it has no route to give
NoBlockPasses(k) ==
    \A i \in DOMAIN virtualServices[k].Http :
        /\ Len(virtualServices[k].Http[i].Match) > 0
        /\ \A j \in DOMAIN virtualServices[k].Http[i].Match :
              ~BlockPassesFor(virtualServices[k].Http[i].Match[j])

\* The group w carries routes of the k-th virtual service
GroupOf(w, k) ==
    \E r \in Range(w.Routes) :
        \E i \in DOMAIN virtualServices[k].Http :
            \/ r.Name = VSRuleName(k, i)
            \/ \E j \in DOMAIN virtualServices[k].Http[i].Match :
                  r.Name = VSRuleName(k, i) \o "." \o MatchName(j)

\* C28: BuildHTTPRoutesForVirtualService returns an error exactly when it has
\* no route, and a non-empty list without error otherwise; a virtual service
\* with the error has no group in the output, the other virtual services
\* keep theirs, and the services no group covers get their default groups.
C28_NoRoutesError ==
    pc = "done" =>
        /\ \A k \in DOMAIN virtualServices :
              LET Holds(res) ==
                      /\ res.err <=> Len(res.routes) = 0
                      /\ res.err <=> NoBlockPasses(k)
                      /\ res.err => \A w \in Range(out) : ~GroupOf(w, k)
                      /\ ~res.err => \E w \in Range(out) : w.Routes = res.routes
              IN  Holds(BuildHTTPRoutesForVirtualService(node, virtualServices[k],
                            serviceRegistry, listenPort, {IstioMeshGateway}))
        /\ \A h \in DOMAIN serviceRegistry \ CoveredHostnames :
              \A port \in { p \in Range(serviceRegistry[h].Ports) : EligiblePort(p) } :
                  \E w \in Range(out) :
                      /\ ~FromVirtualService(w)
                      /\ w.Port = port.Port
                      /\ w.Services = <<serviceRegistry[h]>>

\* The first virtual service has no route, the second has: the output holds
\* the groups of the second and the default groups of the services it leaves
C28_Witness ==
    /\ pc = "done"
    /\ Len(virtualServices) = 2
    /\ NoBlockPasses(1)
    /\ ~NoBlockPasses(2)
    /\ \A w \in Range(out) : ~GroupOf(w, 1)
    /\ \E w \in Range(out) : GroupOf(w, 2)
    /\ \E w \in Range(out) : ~FromVirtualService(w)

---------------------------------------------------------------------------
(* Calls of separateVSHostsAndServices *)

MaxHosts == 2

SeparateHostnames ==
    {"one.svc", "ext.svc", "foo.global", "*.global", "*.svc", "*.local", "*"}

LoadSeparate ==
    /\ pc = "idle"
    /\ \E registry \in SidecarRegistries : \E order \in SidecarOrders :
       \E hosts \in SeqsUpTo(SeparateHostnames, MaxHosts) :
          /\ args' = [virtualService |-> [Name |-> "vs", Hosts |-> hosts, Http |-> << >>],
                      serviceRegistry |-> registry]
          /\ mapOrder' = order
    /\ pc' = "ready"
    /\ UNCHANGED <<push, virtualServices, node, virtualService, serviceRegistry,
                   listenPort, gatewayNames, routeSets, out, err>>

CallSeparateVSHostsAndServices ==
    /\ pc = "ready"
    /\ out' = separateVSHostsAndServices(args.virtualService, args.serviceRegistry)
    /\ pc' = "done"
    /\ UNCHANGED <<push, virtualServices, node, virtualService, serviceRegistry,
                   listenPort, gatewayNames, mapOrder, routeSets, args, err>>

NextSeparate == LoadSeparate \/ CallSeparateVSHostsAndServices

SpecSeparate == Init /\ [][NextSeparate]_vars

\* The wildcard hostname w, read as a suffix glob, subsumes the hostname h:
\* h is one or more labels followed by the labels of w after its "*"
Subsumes(w, h) ==
    \E n \in 1..Len(HostLabels(h)) :
        SubSeq(HostLabels(h), n + 1, Len(HostLabels(h))) = Tail(HostLabels(w))

\* C17: an exact hostname in the registry resolves to its service and is not
\* free-standing; an exact hostname not in the registry is free-standing; a
\* wildcard hostname resolves to every registry service it subsumes and is
\* free-standing exactly when it subsumes none; the services returned are
\* those the hostnames resolve to.
C17_SeparateHostsAndServices ==
    pc = "done" /\ args # Nil /\ "virtualService" \in DOMAIN args =>
        LET hosts == args.virtualService.Hosts
            registry == args.serviceRegistry
            free == Range(out.hosts)
            resolved == Range(out.services)
            wild(h) == Head(HostLabels(h)) = "*"
        IN  /\ \A h \in Range(hosts) :
                 IF ~wild(h)
                 THEN IF h \in DOMAIN registry
                      THEN registry[h] \in resolved /\ h \notin free
                      ELSE h \in free
                 ELSE /\ \A s \in DOMAIN registry :
                            Subsumes(h, s) => registry[s] \in resolved
                      /\ h \in free <=> ~\E s \in DOMAIN registry : Subsumes(h, s)
            /\ \A h \in Range(hosts) :
                 \/ h \in free
                 \/ \E svc \in resolved :
                        IF wild(h) THEN Subsumes(h, svc.Hostname) ELSE svc.Hostname = h
            /\ \A svc \in resolved :
                 /\ svc = registry[svc.Hostname]
                 /\ \E h \in Range(hosts) :
                        IF wild(h) THEN Subsumes(h, svc.Hostname) ELSE svc.Hostname = h
            /\ free \subseteq Range(hosts)

\* The registry {foo.global, bar.global} and the host *.global: both
\* services, and no free-standing hostname
C17_Witness ==
    /\ pc = "done" /\ args # Nil /\ "virtualService" \in DOMAIN args
    /\ args.virtualService.Hosts = <<"*.global">>
    /\ DOMAIN args.serviceRegistry = {"foo.global", "bar.global"}
    /\ Range(out.services) = Range(args.serviceRegistry)
    /\ Len(out.services) = 2
    /\ out.hosts = << >>

\* An exact hostname of the registry next to a wildcard that matches nothing
C17_WitnessExact ==
    /\ pc = "done" /\ args # Nil /\ "virtualService" \in DOMAIN args
    /\ args.virtualService.Hosts = <<"foo.global", "*.svc">>
    /\ DOMAIN args.serviceRegistry = {"foo.global", "bar.global"}
    /\ out.services = <<args.serviceRegistry["foo.global"]>>
    /\ out.hosts = <<"*.svc">>

---------------------------------------------------------------------------
(* Cluster identifiers: built by GetDestinationCluster, parsed by
   getRouteOperation *)

\* Subset names: none, two names, and a string that is one separator
ClusterSubsets == {"", "v1", "v2", "|"}

ClusterIdRules ==
    { << Forward(ms, <<RouteDestination(Destination(h, s, p), 100, Nil)>>) >> :
        h \in Hostnames, s \in ClusterSubsets,
        p \in {Nil, PortSelector(9090), PortSelector(443)},
        ms \in { << >>, << [EmptyMatch EXCEPT !.Uri = Exact("/a")] >> } }

NextClusterId ==
    \/ LoadVirtualService({DevProxy}, ClusterIdRules, {Registry}, {80, 8080}, {KeysAscending})
    \/ CallBuildHTTPRoutesForVirtualService

SpecClusterId == Init /\ [][NextClusterId]_vars

\* The tuples the encoder is checked on: the separator is in no name
ValidTuples ==
    [direction : {"outbound", "inbound"}, subsetName : ClusterSubsets \ {"|"},
     hostname : Hostnames, port : DecimalPorts]

C21_WitnessSeparator ==
    /\ pc = "done" /\ ~err
    /\ virtualService.Http[1].Route[1].Destination.Subset = "|"
    /\ ~IsValidSubsetKey(GetCluster(out[1]))
    /\ out[1].Decorator.Operation[1] = virtualService.Name

---------------------------------------------------------------------------
(* Two compilations of the same inputs: the maps are iterated in the order
   of the run, and the second run may iterate them in another order *)

CompilationOrders ==
    { SidecarOrder \o <<"a", "q">>, Reverse(SidecarOrder \o <<"a", "q">>) }

\* No virtual service; one for *.global; one for two.svc whose match block
\* has two query parameters
CompiledVirtualServices ==
    { << >>,
      << [Name |-> "", Hosts |-> <<"*.global">>,
          Http |-> <<Forward(<< >>, SidecarDestination)>>] >>,
      << [Name |-> "", Hosts |-> <<"two.svc">>,
          Http |-> <<Forward(<< [EmptyMatch EXCEPT
                                   !.QueryParams = ("a" :> Exact("1")) @@ ("q" :> Exact("2"))] >>,
                             SidecarDestination)>>] >> }

LoadCompilation ==
    /\ pc = "idle"
    /\ \E registry \in SidecarRegistries : \E port \in SidecarPorts :
       \E order \in CompilationOrders : \E store \in SidecarStores :
       \E vss \in CompiledVirtualServices :
          /\ serviceRegistry' = registry
          /\ listenPort' = port
          /\ mapOrder' = order
          /\ push' = store
          /\ virtualServices' = [k \in DOMAIN vss |-> NamedIn(k, vss[k])]
    /\ node' = DevProxy
    /\ pc' = "ready"
    /\ UNCHANGED <<virtualService, gatewayNames, routeSets, args, out, err>>

\* The first compilation returns; the next one iterates its maps in an
\* order of its own.
FirstCompilation ==
    /\ pc = "ready"
    /\ out' = << BuildSidecarVirtualHostsFromConfigAndRegistry(node, serviceRegistry,
                                                               virtualServices, listenPort) >>
    /\ \E order \in CompilationOrders : mapOrder' = order
    /\ pc' = "again"
    /\ UNCHANGED <<push, virtualServices, node, virtualService, serviceRegistry,
                   listenPort, gatewayNames, routeSets, args, err>>

SecondCompilation ==
    /\ pc = "again"
    /\ out' = Append(out, BuildSidecarVirtualHostsFromConfigAndRegistry(node, serviceRegistry,
                                                       virtualServices, listenPort))
    /\ pc' = "done"
    /\ UNCHANGED <<push, virtualServices, node, virtualService, serviceRegistry,
                   listenPort, gatewayNames, mapOrder, routeSets, args, err>>

NextCompilation == LoadCompilation \/ FirstCompilation \/ SecondCompilation

SpecCompilation == Init /\ [][NextCompilation]_vars

\* C22: two compilations of the same virtual services, registry, policy
\* store, proxy and listening port return the same groups in the same
\* order, with the same services and routes.
C22_Determinism ==
    pc = "done" => out[1] = out[2]

\* What the two outputs do share: the same groups, each with the same
\* services, as sets
C22_SameGroupsUpToOrder ==
    pc = "done" =>
        { [Port |-> w.Port, Services |-> Range(w.Services)] : w \in Range(out[1]) }
        = { [Port |-> w.Port, Services |-> Range(w.Services)] : w \in Range(out[2]) }

---------------------------------------------------------------------------
(* Rule expansion: rules with several match blocks, some filtered out *)

PathA == [EmptyMatch EXCEPT !.Uri = Exact("/a")]
PathB8080 == [EmptyMatch EXCEPT !.Uri = Exact("/b"), !.Port = 8080]
PathProd == [EmptyMatch EXCEPT !.Uri = Exact("/c"), !.SourceLabels = ("env" :> "prod")]
Root == [EmptyMatch EXCEPT !.Uri = Prefix("/")]
Root8080 == [EmptyMatch EXCEPT !.Uri = Prefix("/"), !.Port = 8080]

ExpansionMatches ==
    { <<PathA>>, <<PathProd>>, <<PathA, PathB8080>>, <<PathB8080, PathA>>,
      <<PathProd, PathA>>, <<Root8080, PathA>>, <<PathA, Root8080, PathB8080>>,
      <<PathA, Root>>, <<Root8080, Root>> }

ExpansionRules == { Forward(ms, OneDestination) : ms \in ExpansionMatches }

NextExpansion ==
    \/ LoadVirtualService({DevProxy}, SeqsUpTo(ExpansionRules, MaxRules), {Registry},
                          {80, 8080}, {KeysAscending})
    \/ CallBuildHTTPRoutesForVirtualService

SpecExpansion == Init /\ [][NextExpansion]_vars

\* The block m is not filtered out: its source labels are labels of the
\* proxy and its port, when it names one, is the listening port
BlockPasses(m) ==
    /\ \A k \in DOMAIN m.SourceLabels :
          k \in DOMAIN node.Labels /\ node.Labels[k] = m.SourceLabels[k]
    /\ m.Port = 0 \/ m.Port = listenPort

\* The block is catch-all for the rule expansion: root prefix or wildcard
\* regex, and neither header nor query-parameter predicates
CatchAllBlock(m) ==
    /\ m.Uri \in {Prefix("/"), Regex("*")}
    /\ m.Headers = EmptyMap /\ m.QueryParams = EmptyMap

\* The position of the first catch-all block of rule i, 0 when it has none
FirstCatchAll(i) ==
    LET ms == virtualService.Http[i].Match
        at == { j \in DOMAIN ms : CatchAllBlock(ms[j]) }
    IN  IF at = {} THEN 0 ELSE CHOOSE j \in at : \A l \in at : j <= l

\* The first catch-all block of rule i translates into a route
CatchAllTranslates(i) ==
    FirstCatchAll(i) # 0 /\ BlockPasses(virtualService.Http[i].Match[FirstCatchAll(i)])

\* The loop over the rules gets to rule i: every earlier rule has match
\* blocks, and none has a first catch-all block that translates
LoopReaches(i) ==
    \A k \in 1..(i - 1) :
        Len(virtualService.Http[k].Match) > 0 /\ ~CatchAllTranslates(k)

\* The positions of the blocks of rule i that are not filtered out, in order
PassingBlocks(i) ==
    LET ms == virtualService.Http[i].Match
    IN  SelectSeq([j \in DOMAIN ms |-> j], LAMBDA j : BlockPasses(ms[j]))

\* C23: a reached rule with match blocks, without a catch-all block or whose
\* first catch-all block fails translation, emits exactly one route per
\* block that is not filtered out, in the declared order of the blocks; the
\* routes of the rules are in the declared order of the rules.
C23_RuleExpansion ==
    pc = "done" =>
        /\ \A i \in DOMAIN virtualService.Http :
              (/\ Len(virtualService.Http[i].Match) > 0
               /\ LoopReaches(i)
               /\ ~CatchAllTranslates(i))
              => /\ Len(RoutesOfRule(i)) = Len(PassingBlocks(i))
                 /\ \A n \in DOMAIN RoutesOfRule(i) :
                       /\ RoutesOfRule(i)[n].Name = RouteName(i, PassingBlocks(i)[n])
                       /\ RoutesOfRule(i)[n].Match.PathSpecifier
                             = virtualService.Http[i].Match[PassingBlocks(i)[n]].Uri
        /\ \A m, n \in DOMAIN out : m < n => RuleOf(out[m]) <= RuleOf(out[n])

\* A rule whose first catch-all block is for another port, between two path
\* blocks, followed by a second rule: the routes of the two path blocks,
\* then the route of the second rule
C23_Witness ==
    /\ pc = "done"
    /\ listenPort = 80
    /\ Len(virtualService.Http) = 2
    /\ Unnamed(virtualService.Http[1].Match) = <<PathB8080, PathA>>
    /\ Unnamed(virtualService.Http[2].Match) = <<Root8080, PathA>>
    /\ Len(out) = 2
    /\ out[1].Name = RouteName(1, 2)
    /\ out[2].Name = RouteName(2, 2)

\* Three blocks, the catch-all one in the middle filtered out by its port
C23_WitnessThree ==
    /\ pc = "done"
    /\ listenPort = 80
    /\ Len(virtualService.Http) = 1
    /\ Unnamed(virtualService.Http[1].Match) = <<PathA, Root8080, PathB8080>>
    /\ Len(out) = 1
    /\ out[1].Name = RouteName(1, 1)

\* C24: a reached rule whose first catch-all block translates emits that
\* route alone, the route is the last of the returned list, and no later
\* rule contributes a route.
C24_CatchAllStops ==
    pc = "done" =>
        \A i \in DOMAIN virtualService.Http :
            (LoopReaches(i) /\ CatchAllTranslates(i))
            => /\ ~err
               /\ Len(RoutesOfRule(i)) = 1
               /\ RoutesOfRule(i)[1].Name = RouteName(i, FirstCatchAll(i))
               /\ out[Len(out)].Name = RouteName(i, FirstCatchAll(i))
               /\ \A n \in DOMAIN out : RuleOf(out[n]) <= i

\* A rule with a path block, then a rule with a path block before a
\* catch-all block, on any port: the route of the first rule, then the
\* catch-all route of the second
C24_Witness ==
    /\ pc = "done"
    /\ Len(virtualService.Http) = 2
    /\ Unnamed(virtualService.Http[1].Match) = <<PathA>>
    /\ Unnamed(virtualService.Http[2].Match) = <<PathA, Root>>
    /\ Len(out) = 2
    /\ out[1].Name = RouteName(1, 1)
    /\ out[2].Name = RouteName(2, 2)

\* The catch-all rule first: the rule after it, whose path block would give
\* a route, contributes none
C24_WitnessLaterRule ==
    /\ pc = "done"
    /\ Len(virtualService.Http) = 2
    /\ Unnamed(virtualService.Http[1].Match) = <<PathA, Root>>
    /\ Unnamed(virtualService.Http[2].Match) = <<PathA>>
    /\ Len(out) = 1
    /\ out[1].Name = RouteName(1, 2)

---------------------------------------------------------------------------
(* The two catch-all tests on one match block: isCatchAllMatch on the block,
   isCatchAllRoute on the route match translateRouteMatch compiles from it *)

CatchAllBlocks ==
    { [EmptyMatch EXCEPT !.Uri = u, !.Headers = h, !.WithoutHeaders = w,
                         !.QueryParams = q, !.Method = m] :
        u \in {Nil, Prefix("/"), Prefix("/a"), Exact("/"), Regex("*")},
        h \in {EmptyMap, ("foo" :> Exact("bar"))},
        w \in {EmptyMap, ("a" :> Exact("1"))},
        q \in {EmptyMap, ("q" :> Exact("1"))},
        m \in {Nil, Exact("GET")} }

LoadCatchAll == LoadArgs(CatchAllBlocks, MapOrders)

CallCatchAllTests ==
    /\ pc = "ready"
    /\ Returned([block |-> isCatchAllMatch(args),
                 route |-> isCatchAllRoute([Match |-> translateRouteMatch(args)])])

NextCatchAll == LoadCatchAll \/ CallCatchAllTests

SpecCatchAll == Init /\ [][NextCatchAll]_vars

\* C25: a match block is catch-all for the rule expansion exactly when the
\* route compiled from it is catch-all for the combiner.
C25_CatchAllTestsAgree ==
    pc = "done" => (out.block <=> out.route)

\* Where the two tests do agree: on the blocks that have a URI predicate and
\* neither a method nor a without-headers predicate
C25_AgreeOnUriBlocks ==
    (pc = "done" /\ args.Uri # Nil /\ args.Method = Nil /\ args.WithoutHeaders = EmptyMap)
    => (out.block <=> out.route)

---------------------------------------------------------------------------
(* Calls of getHashPolicyByService *)

\* Destination rules without subsets for one.svc
ByServiceRules ==
    {DestinationRuleSpec(Nil, << >>)} \cup
    { DestinationRuleSpec(TrafficPolicy(lb, pls), << >>) :
        lb \in {Nil, LoadBalancer(Nil), LoadBalancer(HostHash)},
        pls \in PortOverrides(HostPortHash) }

ByServiceArgs ==
    { [push |-> store, svc |-> Service("one.svc", <<port>>), port |-> port] :
        store \in {Nil, EmptyMap} \cup { ("one.svc" :> rule) : rule \in ByServiceRules },
        port \in { ServicePort(n, "HTTP") : n \in {7070, 8080, 9090, 9000} } }

LoadHashPolicyByService ==
    /\ pc = "idle"
    /\ \E a \in ByServiceArgs :
          /\ args' = a
          /\ push' = a.push
    /\ node' = DevProxy
    /\ pc' = "ready"
    /\ UNCHANGED <<virtualServices, virtualService, serviceRegistry, listenPort,
                   gatewayNames, mapOrder, routeSets, out, err>>

CallGetHashPolicyByService ==
    /\ pc = "ready"
    /\ Returned(getHashPolicyByService(node, push, args.svc, args.port))

NextHashPolicyByService == LoadHashPolicyByService \/ CallGetHashPolicyByService

SpecHashPolicyByService == Init /\ [][NextHashPolicyByService]_vars

\* The destination without subset that names the service and port of the call
ByServiceDestination ==
    RouteDestination(Destination(args.svc.Hostname, "", PortSelector(args.port.Port)),
                     100, Nil)

\* C26: the resolver without subsets uses the consistent hash the host's
\* override for the port declares, else the host-level one, and gives no
\* policy only when neither declares one; it agrees with getHashPolicy on
\* the destination without subset and with that port.
C26_HashPolicyByService ==
    pc = "done" =>
        /\ IF push = Nil \/ "one.svc" \notin DOMAIN push
           THEN out = Nil
           ELSE LET declared == DeclaredBy(push["one.svc"].TrafficPolicy,
                                           ByServiceDestination.Destination)
                IN  IF declared = << >> THEN out = Nil
                    ELSE out = ClaimedHashPolicy(declared[1])
        /\ out = getHashPolicy(push, node, ByServiceDestination, "default")

\* What the code does keep: an override for the port that declares a
\* consistent hash is used
C26_PortLevelHashUsed ==
    (/\ pc = "done" /\ push # Nil /\ "one.svc" \in DOMAIN push
     /\ push["one.svc"].TrafficPolicy # Nil
     /\ DeclaredForPort(push["one.svc"].TrafficPolicy.PortLevelSettings, args.port.Port) # << >>)
    => out = ClaimedHashPolicy(HostPortHash)

---------------------------------------------------------------------------
(* The abort percentage of a fault injection *)

\* The abort policy in the fault entry of the only route of out
CompiledAbort == out[1].TypedPerFilterConfig[WellknownFault].Message.Abort

\* The percentage translateFault gives a fixed delay with the percentage
\* fields of the abort
PercentageAsForDelay(abort) ==
    translateFaultDelay(FaultDelay(abort.Percentage, abort.Percent,
                                   [kind |-> "FixedDelay", value |-> 5])).Percentage

\* C27: the percentage of a compiled HTTP-status abort is taken as the delay
\* percentage is: from the explicit percentage field when present, else from
\* the legacy integer percent.
C27_AbortPercentage ==
    (/\ pc = "done" /\ ~err
     /\ virtualService.Http[1].Fault # Nil
     /\ ~AbortDisabled(virtualService.Http[1].Fault))
    => /\ CompiledAbort # Nil
       /\ CompiledAbort.Percentage = PercentageAsForDelay(virtualService.Http[1].Fault.Abort)

\* With the explicit percentage field set, the abort carries its translation
C27_ExplicitAbortPercentage ==
    (/\ pc = "done" /\ ~err
     /\ virtualService.Http[1].Fault # Nil
     /\ ~AbortDisabled(virtualService.Http[1].Fault)
     /\ virtualService.Http[1].Fault.Abort.Percentage # Nil)
    => /\ CompiledAbort # Nil
       /\ CompiledAbort.Percentage = PercentageAsForDelay(virtualService.Http[1].Fault.Abort)

====
